---- MODULE Spec2Model ----
(***************************************************************************)
(* A model of sacar: the master's handling of a tarball-ready event        *)
(* (handlers.py, tasks.py: prepare_hosts, wait_for_hosts) and the slave's  *)
(* provisioning pipeline (tasks.py: prepare_host, _prepare).               *)
(*                                                                         *)
(* Every await of the Python code is a suspension point; one action of the *)
(* model is the code between two suspension points.                        *)
(***************************************************************************)
EXTENDS Integers, Sequences, FiniteSets, TLC

VARIABLES
    \* ---- interpreter ----
    assertsEnabled, \* FALSE under "python -O": assert statements are compiled out
    \* ---- wall clock (seconds) ----
    clock,
    \* ---- coordination store ----
    rollout,        \* value stored at key repository/commit (VersionState)
    kv,             \* value stored at key repository/commit/hostname, per host
    storeIndex,     \* the store's revision index (X-Consul-Index)
    \* ---- status-check API ----
    reports,        \* sequence of check-run requests the API has received
    nextRunId,      \* id the API assigns to the next created check run
    \* ---- check_suite_event handler ----
    cspc, cs_run_id,
    \* ---- tarball_ready_event handler, prepare_hosts, wait_for_hosts ----
    mpc,            \* position of the master's flow
    payload,        \* the TarballReadyEvent
    state,          \* the in-memory VersionState read by the handler
    started_at,     \* handlers.py:156
    slaves,         \* the discovered slaves (prepare_hosts)
    notified,       \* slaves whose /prepare-host request succeeded
    num_slaves, num_ready, timed_out, index,  \* locals of wait_for_hosts
    \* ---- history of the master's flow (not program state) ----
    failure,        \* the external call that failed, "none" if none did
    raised,         \* the exception that ended the flow, "none" if none did
    waitStarted,    \* wait_for_hosts was scheduled as background task
    wake_at,        \* clock at the last wake whose exit conditions were evaluated
    wakes,          \* number of wakes of the wait loop
    loop_exit,      \* how the wait loop was left: "none", "success", "timeout"
    \* ---- slave hosts as the master sees them ----
    pending,        \* hosts with an accepted /prepare-host request, per host: position
    \* ---- one slave host: the version directory of one commit ----
    targetDir,      \* the directory exists
    lockFile,       \* prepare.pid exists
    prepareDone,    \* prepare.done exists
    extracted,      \* the tarball's files are in the directory
    artifact,       \* what the tarball holds
    hostKey,        \* value stored at key repository/commit/<this host>
    \* ---- prepare_host runs on that host, per run ----
    ppc,            \* position of the run
    ret,            \* what _prepare returned
    exc,            \* the exception _prepare raised, "none" if none
    \* ---- history of the runs (not program state), per run ----
    steps,          \* the pipeline steps the run started
    holds,          \* the run created prepare.pid and has not removed it
    contended,      \* prepare.pid existed when the run tried to create it
    writes,         \* the values the run stored under the host's key
    putFailed,      \* a store request of the run failed
    \* ---- one watch generator: Client.wait or Client.wait_recursive ----
    wKind,          \* "none", "wait" or "wait_recursive"
    wPresent,       \* the store holds a value under the watched key or prefix
    wStoreIndex,    \* the store's revision index
    wpc,            \* position of the generator
    wIndex,         \* its local index
    wFrom,          \* the index parameter of the request last issued
    wResp,          \* the most recent response: status and X-Consul-Index
    wRaised,        \* the exception that ended the generator, "none" if none
    \* ---- history of the generator (not program state) ----
    wCalls,         \* number of requests issued
    wYields,        \* number of values yielded to the caller
    \* ---- the token caches of github.py and gcp.py ----
    provider,       \* the module under study: "github" or "gcp"
    AUTH_TOKENS,    \* its cache: per key the (token, expiry), token 0 if none
    nextToken,      \* the token the identity provider mints next
    \* ---- calls of _get_auth_token / get_auth_token, per caller ----
    tpc,            \* position of the call
    tkey,           \* its installation_id or scope
    tresp,          \* the provider's answer to its mint request
    tresult,        \* the token it returned, 0 if none
    \* ---- history of the calls (not program state) ----
    thit,           \* the call found a valid cache entry
    tmints,         \* number of mint requests the call made
    tminted,        \* the (token, expiry) its mint produced
    lastStore,      \* per key: the (token, expiry) of the call that stored last
    \* ---- one caller of github._create_or_update_check_run ----
    crpc,           \* position of the call
    cr_run_id,      \* its run_id argument, 0 for None
    cr_payload,     \* its payload
    crResult,       \* the run id it returned, 0 if none
    crRaised,       \* the exception it raised, "none" if none
    \* ---- history of the caller (not program state) ----
    crSent,         \* number of check-run requests the call has sent
    crCalls,        \* number of calls made
    \* ---- one POST to /github-webhook ----
    whpc,           \* position of the request
    request,        \* its headers and body
    whStatus,       \* status code of the response, 0 while there is none
    whRaised,       \* the exception that ended the request, "none" if none
    \* ---- tasks.deploy, the background task of a deployment event ----
    dpc,            \* position of the task
    d_state,        \* the VersionState it read
    deployment_id,  \* its deployment_id argument
    d_ret,          \* the (success, message) it returned
    d_hook,         \* bin/deploy has been started
    \* ---- utils.now ----
    nowAware,       \* the datetime it returns carries a tzinfo
    \* ---- history of wait_for_hosts (not program state) ----
    wait_began_at,  \* clock when wait_for_hosts was scheduled
    rollouts        \* number of tarball-ready events after the first

mvars == <<assertsEnabled, clock, rollout, kv, storeIndex, reports, nextRunId,
           cspc, cs_run_id, mpc, payload, state, started_at, slaves, notified,
           num_slaves, num_ready, timed_out, index, failure, raised,
           waitStarted, wake_at, wakes, loop_exit, pending>>

svars == <<targetDir, lockFile, prepareDone, extracted, artifact, hostKey, ppc,
           ret, exc, steps, holds, contended, writes, putFailed>>

wvars == <<wKind, wPresent, wStoreIndex, wpc, wIndex, wFrom, wResp, wRaised,
           wCalls, wYields>>

tvars == <<provider, AUTH_TOKENS, nextToken, tpc, tkey, tresp, tresult, thit,
           tmints, tminted, lastStore>>

rvars == <<crpc, cr_run_id, cr_payload, crResult, crRaised, crSent, crCalls>>

hvars == <<whpc, request, whStatus, whRaised>>

dvars == <<dpc, d_state, deployment_id, d_ret, d_hook>>

\* the webhook ingress, the deployment task and utils.now
xvars == <<hvars, dvars, nowAware>>

yvars == <<wait_began_at, rollouts>>

\* the clients studied on their own, the ingress and the deployment task
cvars == <<wvars, tvars, rvars, xvars>>

vars == <<mvars, svars, cvars, yvars>>

-----------------------------------------------------------------------------
(* Bounds of the model *)

NumHosts == 2
NumRuns == 2
MaxWakes == 3
TickSeconds == 150
MaxClock == 600
MaxIndex == 4
MaxCalls == 3
NumCallers == 2
NumKeys == 2
MaxTokenClock == 150
MaxReportCalls == 3
MaxSuites == 2
MaxRollouts == 1

Hosts == 1..NumHosts
Runs == 1..NumRuns

(* Program constants *)

\* tasks.py:69  timeout: int = 5 * 60
Timeout == 300

\* types.py:191  return self.ref[11:]
PrefixLen == 11

\* github.py:268  datetime.timedelta(seconds=30); gcp.py:57  + 30
TokenMargin == 30

\* github.py:29  signature_header.split("=", 2)
MaxSplit == 2

-----------------------------------------------------------------------------
(* Strings that the code inspects are sequences of characters *)

RefsHeads == <<"r","e","f","s","/","h","e","a","d","s","/">>
Master == <<"m","a","s","t","e","r">>
Dev == <<"d","e","v">>
RefsTags == <<"r","e","f","s","/","t","a","g","s","/">>

\* the refs a TarballReadyEvent may carry
Refs == {RefsHeads \o Master, Master, RefsHeads \o Dev, RefsTags \o Master}

\* the configured deploy branch (settings.DEPLOY_BRANCH)
DEPLOY_BRANCH == Master

\* str.startswith
startswith(s, prefix) ==
    /\ Len(s) >= Len(prefix)
    /\ SubSeq(s, 1, Len(prefix)) = prefix

\* a plausible slip: the branch is taken to be what follows the last "/"
branch_last_component(ref) ==
    LET slashes == {i \in 1..Len(ref) : ref[i] = "/"}
    IN  IF slashes = {}
        THEN ref
        ELSE SubSeq(ref, (CHOOSE i \in slashes : \A j \in slashes : j <= i) + 1,
                    Len(ref))

\* TarballReadyEvent.branch
branch(ref) ==
    IF startswith(ref, RefsHeads)
    THEN SubSeq(ref, PrefixLen + 1, Len(ref))
    ELSE ref

-----------------------------------------------------------------------------
(* datetime values: seconds on the wall clock, with or without a tzinfo *)

\* utils.now(): the current time; timezone-aware (UTC) as its uses require
\* (github.py:213, 268), unless a specification says otherwise
utils_now == [t |-> clock, aware |-> nowAware]

\* datetime.datetime.now(): the current time, naive
datetime_now == [t |-> clock, aware |-> FALSE]

\* datetime.__sub__: a naive and an aware datetime cannot be subtracted
datetime_sub(a, b) ==
    IF a.aware = b.aware
    THEN [exc |-> "none", seconds |-> a.t - b.t]
    ELSE [exc |-> "TypeError", seconds |-> 0]

\* github._to_json on a datetime: assert o.tzinfo == datetime.timezone.utc
to_json_raises(o) == assertsEnabled /\ ~o.aware

-----------------------------------------------------------------------------
(* Values of the coordination store *)

NoVersionState ==
    [exists |-> FALSE, run_id |-> 0, installation_id |-> 0,
     status |-> "None", deployment_id |-> 0]

\* types.VersionState (run_id 0 and deployment_id 0 stand for None)
VersionState(run_id, installation_id, status) ==
    [exists |-> TRUE, run_id |-> run_id, installation_id |-> installation_id,
     status |-> status, deployment_id |-> 0]

NoSlaveState == [exists |-> FALSE, done |-> FALSE, success |-> "None"]

\* types.SlaveVersionState
SlaveVersionState(done, success) ==
    [exists |-> TRUE, done |-> done, success |-> success]

-----------------------------------------------------------------------------
(* The status-check API *)

\* a check-run payload; time is <<>> or <<a datetime>>
CheckPayload(status, conclusion, summary, ready, total, time) ==
    [status |-> status, conclusion |-> conclusion, summary |-> summary,
     ready |-> ready, total |-> total, time |-> time]

\* a slip: the request is a POST to /check-runs whatever run_id is
create_or_update_check_run_posting(run_id, p) ==
    IF \E i \in 1..Len(p.time) : to_json_raises(p.time[i])
    THEN [exc |-> "AssertionError", reports |-> reports,
          run_id |-> run_id, nextRunId |-> nextRunId]
    ELSE [exc |-> "none",
          reports |-> Append(reports,
              [method |-> "POST", run_id |-> nextRunId, status |-> p.status,
               conclusion |-> p.conclusion, summary |-> p.summary,
               ready |-> p.ready, total |-> p.total]),
          run_id |-> IF run_id # 0 THEN run_id ELSE nextRunId,
          nextRunId |-> nextRunId + 1]

\* github._create_or_update_check_run: the payload is encoded first, then one
\* request is sent: PATCH to the run when run_id is given, POST otherwise
create_or_update_check_run(run_id, p) ==
    IF \E i \in 1..Len(p.time) : to_json_raises(p.time[i])
    THEN [exc |-> "AssertionError", reports |-> reports,
          run_id |-> run_id, nextRunId |-> nextRunId]
    ELSE IF run_id # 0
    THEN [exc |-> "none",
          reports |-> Append(reports,
              [method |-> "PATCH", run_id |-> run_id, status |-> p.status,
               conclusion |-> p.conclusion, summary |-> p.summary,
               ready |-> p.ready, total |-> p.total]),
          run_id |-> run_id, nextRunId |-> nextRunId]
    ELSE [exc |-> "none",
          reports |-> Append(reports,
              [method |-> "POST", run_id |-> nextRunId, status |-> p.status,
               conclusion |-> p.conclusion, summary |-> p.summary,
               ready |-> p.ready, total |-> p.total]),
          run_id |-> nextRunId, nextRunId |-> nextRunId + 1]

-----------------------------------------------------------------------------
(* check_suite_event (handlers.py:16-68) *)

CheckSuiteActions == {"requested", "rerequested", "completed"}

\* the event arrives; for requested/rerequested a queued check run is created
CheckSuiteEvent(action) ==
    /\ cspc = "idle"
    /\ IF action \in {"requested", "rerequested"}
       THEN LET r == create_or_update_check_run(0,
                        CheckPayload("queued", "None", "Waiting for tarball",
                                     0, 0, <<>>))
            IN  /\ reports' = r.reports
                /\ nextRunId' = r.nextRunId
                /\ cs_run_id' = r.run_id
                /\ cspc' = "put"
       ELSE /\ cspc' = "done"
            /\ UNCHANGED <<reports, nextRunId, cs_run_id>>
    /\ UNCHANGED <<assertsEnabled, clock, rollout, kv, storeIndex, mpc, payload,
                   state, started_at, slaves, notified, num_slaves, num_ready,
                   timed_out, index, failure, raised, waitStarted, wake_at,
                   wakes, loop_exit, pending>>
    /\ UNCHANGED <<svars, cvars, yvars>>

\* the VersionState is stored under repository/commit
CheckSuitePut ==
    /\ cspc = "put"
    /\ rollout' = VersionState(cs_run_id, 1, "waiting-for-tarball")
    /\ storeIndex' = storeIndex + 1
    /\ cspc' = "done"
    /\ UNCHANGED <<assertsEnabled, clock, kv, reports, nextRunId, cs_run_id, mpc,
                   payload, state, started_at, slaves, notified, num_slaves,
                   num_ready, timed_out, index, failure, raised, waitStarted,
                   wake_at, wakes, loop_exit, pending>>
    /\ UNCHANGED <<svars, cvars, yvars>>

\* the handler has responded (handlers.py:68): the next check_suite event for
\* the commit, a re-request, can be delivered
CheckSuiteAgain ==
    /\ cspc = "done"
    /\ nextRunId <= MaxSuites
    /\ cspc' = "idle"
    /\ UNCHANGED <<assertsEnabled, clock, rollout, kv, storeIndex, reports,
                   nextRunId, cs_run_id, mpc, payload, state, started_at,
                   slaves, notified, num_slaves, num_ready, timed_out, index,
                   failure, raised, waitStarted, wake_at, wakes, loop_exit,
                   pending>>
    /\ UNCHANGED <<svars, cvars, yvars>>

-----------------------------------------------------------------------------
(* tarball_ready_event (handlers.py:106-219) *)

\* the event arrives at /tarball-ready
TarballReadyEvent(ref) ==
    /\ mpc = "idle"
    /\ payload' = [ref |-> ref]
    /\ mpc' = "get_state"
    /\ UNCHANGED <<assertsEnabled, clock, rollout, kv, storeIndex, reports,
                   nextRunId, cspc, cs_run_id, state, started_at, slaves,
                   notified, num_slaves, num_ready, timed_out, index, failure,
                   raised, waitStarted, wake_at, wakes, loop_exit, pending>>
    /\ UNCHANGED <<svars, cvars, yvars>>

\* client.get of the VersionState, then the branch test (handlers.py:115-156);
\* a missing key is a 404, which raise_for_status turns into an exception
GetState(ok) ==
    /\ mpc = "get_state"
    /\ IF ~(ok /\ rollout.exists)
       THEN /\ failure' = "state_read"
            /\ raised' = "HTTPError"
            /\ mpc' = "raised"
            /\ UNCHANGED <<state, started_at>>
       ELSE /\ state' = rollout
            /\ IF branch(payload.ref) # DEPLOY_BRANCH
               THEN /\ mpc' = "report_neutral"
                    /\ UNCHANGED started_at
               ELSE /\ started_at' = utils_now
                    /\ mpc' = "discover"
            /\ UNCHANGED <<failure, raised>>
    /\ UNCHANGED <<assertsEnabled, clock, rollout, kv, storeIndex, reports,
                   nextRunId, cspc, cs_run_id, payload, slaves, notified,
                   num_slaves, num_ready, timed_out, index, waitStarted,
                   wake_at, wakes, loop_exit, pending>>
    /\ UNCHANGED <<svars, cvars, yvars>>

\* not on the deploy branch: a completed, neutral check run (handlers.py:128-154)
ReportNeutral ==
    /\ mpc = "report_neutral"
    /\ LET r == create_or_update_check_run(state.run_id,
                    CheckPayload("completed", "neutral", "Preparing hosts",
                                 0, 0, <<utils_now>>))
       IN  /\ reports' = r.reports
           /\ nextRunId' = r.nextRunId
           /\ IF r.exc # "none"
              THEN raised' = r.exc /\ mpc' = "raised"
              ELSE mpc' = "responded" /\ UNCHANGED raised
    /\ UNCHANGED <<assertsEnabled, clock, rollout, kv, storeIndex, cspc,
                   cs_run_id, payload, state, started_at, slaves, notified,
                   num_slaves, num_ready, timed_out, index, failure,
                   waitStarted, wake_at, wakes, loop_exit, pending>>
    /\ UNCHANGED <<svars, cvars, yvars>>

\* the flow of one event has ended (wait_for_hosts has returned or raised)
\* and its locals are gone: the route takes the next tarball-ready event for
\* the commit, a rebuilt tarball or a redelivery, and the handler starts anew
\* (handlers.py:106-113)
TarballReadyAgain ==
    /\ mpc \in {"done", "wait_raised"}
    /\ rollouts < MaxRollouts
    /\ rollouts' = rollouts + 1
    /\ mpc' = "idle"
    /\ payload' = [ref |-> <<>>]
    /\ state' = NoVersionState
    /\ started_at' = [t |-> 0, aware |-> TRUE]
    /\ slaves' = {}
    /\ notified' = {}
    /\ num_slaves' = 0
    /\ num_ready' = 0
    /\ timed_out' = FALSE
    /\ index' = 0
    /\ failure' = "none"
    /\ raised' = "none"
    /\ waitStarted' = FALSE
    /\ wake_at' = 0
    /\ wait_began_at' = 0
    /\ loop_exit' = "none"
    /\ UNCHANGED <<assertsEnabled, clock, rollout, kv, storeIndex, reports,
                   nextRunId, cspc, cs_run_id, wakes, pending>>
    /\ UNCHANGED <<svars, cvars>>

-----------------------------------------------------------------------------
(* prepare_hosts (tasks.py:22-59), called inside the handler's try block *)

\* get_service_nodes: the slaves registered in the catalog (tasks.py:34-36)
Discover(ok, found) ==
    /\ mpc = "discover"
    /\ IF ok
       THEN /\ slaves' = found
            /\ mpc' = "notify"
            /\ UNCHANGED <<failure, raised>>
       ELSE /\ failure' = "discovery"
            /\ raised' = "HTTPError"
            /\ mpc' = "except"
            /\ UNCHANGED slaves
    /\ UNCHANGED <<assertsEnabled, clock, rollout, kv, storeIndex, reports,
                   nextRunId, cspc, cs_run_id, payload, state, started_at,
                   notified, num_slaves, num_ready, timed_out, index,
                   waitStarted, wake_at, wakes, loop_exit, pending>>
    /\ UNCHANGED <<svars, cvars, yvars>>

\* a slip: gather(..., return_exceptions=True) collects a failure as a result
notify_slave_collecting(h, ok) ==
    /\ mpc = "notify"
    /\ h \in slaves \ notified
    /\ notified' = notified \cup {h}
    /\ IF ok
       THEN pending' = [pending EXCEPT ![h] = "start"] /\ UNCHANGED failure
       ELSE failure' = "notification" /\ UNCHANGED pending
    /\ UNCHANGED <<mpc, raised>>

\* _notify_slave under asyncio.gather (tasks.py:38-51): the slave accepts the
\* request and schedules prepare_host, or the request fails; the first failure
\* ends gather, while requests already on their way may still be accepted
notify_slave(h, ok) ==
    /\ h \in slaves \ notified
    /\ IF ok
       THEN /\ \/ mpc = "notify"
               \/ failure = "notification" /\ mpc \in {"except", "raised"}
            /\ notified' = notified \cup {h}
            /\ pending' = [pending EXCEPT ![h] = "start"]
            /\ UNCHANGED <<failure, raised, mpc>>
       ELSE /\ mpc = "notify"
            /\ failure' = "notification"
            /\ raised' = "HTTPError"
            /\ mpc' = "except"
            /\ UNCHANGED <<notified, pending>>

NotifySlave(h, ok) ==
    /\ notify_slave(h, ok)
    /\ UNCHANGED <<assertsEnabled, clock, rollout, kv, storeIndex, reports,
                   nextRunId, cspc, cs_run_id, payload, state, started_at,
                   slaves, num_slaves, num_ready, timed_out, index,
                   waitStarted, wake_at, wakes, loop_exit>>
    /\ UNCHANGED <<svars, cvars, yvars>>

\* a slip: the master also seeds the key of every notified slave with
\* done=False
FanoutDone_seeding(ok) ==
    /\ mpc = "notify"
    /\ notified = slaves
    /\ state' = [state EXCEPT !.status = "preparing"]
    /\ IF ok
       THEN /\ rollout' = state'
            /\ kv' = [h \in Hosts |->
                        IF h \in slaves
                        THEN SlaveVersionState(FALSE, "None")
                        ELSE kv[h]]
            /\ storeIndex' = storeIndex + 1
            /\ num_slaves' = Cardinality(slaves)
            /\ mpc' = "report_in_progress"
            /\ UNCHANGED <<failure, raised>>
       ELSE /\ failure' = "state_put"
            /\ raised' = "HTTPError"
            /\ mpc' = "except"
            /\ UNCHANGED <<rollout, kv, storeIndex, num_slaves>>
    /\ UNCHANGED <<assertsEnabled, clock, reports, nextRunId, cspc,
                   cs_run_id, payload, started_at, slaves, notified, num_ready,
                   timed_out, index, waitStarted, wake_at, wakes, loop_exit, pending>>
    /\ UNCHANGED <<svars, cvars, yvars>>

\* every notification succeeded: the state is set to preparing and stored
\* (tasks.py:53-59)
FanoutDone(ok) ==
    /\ mpc = "notify"
    /\ notified = slaves
    /\ state' = [state EXCEPT !.status = "preparing"]
    /\ IF ok
       THEN /\ rollout' = state'
            /\ storeIndex' = storeIndex + 1
            /\ num_slaves' = Cardinality(slaves)
            /\ mpc' = "report_in_progress"
            /\ UNCHANGED <<failure, raised>>
       ELSE /\ failure' = "state_put"
            /\ raised' = "HTTPError"
            /\ mpc' = "except"
            /\ UNCHANGED <<rollout, storeIndex, num_slaves>>
    /\ UNCHANGED <<assertsEnabled, clock, kv, reports, nextRunId, cspc,
                   cs_run_id, payload, started_at, slaves, notified, num_ready,
                   timed_out, index, waitStarted, wake_at, wakes, loop_exit, pending>>
    /\ UNCHANGED <<svars, cvars, yvars>>

\* the in-progress check run, then the 202 response with wait_for_hosts as
\* background task (handlers.py:165-197)
ReportInProgress ==
    /\ mpc = "report_in_progress"
    /\ LET r == create_or_update_check_run(state.run_id,
                    CheckPayload("in_progress", "None", "Preparing hosts",
                                 0, 0, <<started_at>>))
       IN  /\ reports' = r.reports
           /\ nextRunId' = r.nextRunId
           /\ IF r.exc # "none"
              THEN /\ raised' = r.exc
                   /\ mpc' = "except"
                   /\ UNCHANGED <<waitStarted, timed_out, num_ready, index,
                                  wait_began_at>>
              ELSE /\ waitStarted' = TRUE
                   /\ wait_began_at' = clock
                   /\ timed_out' = FALSE
                   /\ num_ready' = 0
                   /\ index' = 1
                   /\ mpc' = "watch"
                   /\ UNCHANGED raised
    /\ UNCHANGED <<assertsEnabled, clock, rollout, kv, storeIndex, cspc,
                   cs_run_id, payload, state, started_at, slaves, notified,
                   num_slaves, failure, wake_at, wakes, loop_exit, pending>>
    /\ UNCHANGED <<svars, cvars, rollouts>>

\* except Exception: a completed, failure check run, then raise
\* (handlers.py:199-219)
Except ==
    /\ mpc = "except"
    /\ LET r == create_or_update_check_run(state.run_id,
                    CheckPayload("completed", "failure",
                                 "Error while preparing version",
                                 0, 0, <<utils_now>>))
       IN  /\ reports' = r.reports
           /\ nextRunId' = r.nextRunId
           /\ raised' = IF r.exc # "none" THEN r.exc ELSE raised
    /\ mpc' = "raised"
    /\ UNCHANGED <<assertsEnabled, clock, rollout, kv, storeIndex, cspc,
                   cs_run_id, payload, state, started_at, slaves, notified,
                   num_slaves, num_ready, timed_out, index, failure,
                   waitStarted, wake_at, wakes, loop_exit, pending>>
    /\ UNCHANGED <<svars, cvars, yvars>>

-----------------------------------------------------------------------------
(* wait_for_hosts (tasks.py:62-143) over Client.wait_recursive               *)
(* (consul.py:130-148)                                                      *)

\* the SlaveVersionStates stored under repository/commit/
StoredSlaveStates == {h \in Hosts : kv[h].exists}

\* get_recursive is issued with the current index (consul.py:140-142)
WatchIssue ==
    /\ mpc = "watch"
    /\ mpc' = "watching"
    /\ UNCHANGED <<assertsEnabled, clock, rollout, kv, storeIndex, reports,
                   nextRunId, cspc, cs_run_id, payload, state, started_at,
                   slaves, notified, num_slaves, num_ready, timed_out, index,
                   failure, raised, waitStarted, wake_at, wakes, loop_exit, pending>>
    /\ UNCHANGED <<svars, cvars, yvars>>

\* the store answers: an error other than 404 is raised to wait_for_hosts; a
\* 404 (no key under the prefix) only sets index and the query is issued
\* again, nothing is yielded; otherwise the values are yielded and the loop
\* body counts the ready slaves (consul.py:139-148, tasks.py:79-83)
WatchResponse(ok) ==
    /\ mpc = "watching"
    /\ IF ~ok
       THEN /\ failure' = "watch"
            /\ raised' = "HTTPError"
            /\ mpc' = "wait_raised"
            /\ UNCHANGED <<index, num_ready, wakes>>
       ELSE /\ index' = storeIndex
            /\ IF StoredSlaveStates = {}
               THEN /\ mpc' = "watch"
                    /\ UNCHANGED <<num_ready, wakes>>
               ELSE /\ wakes < MaxWakes
                    /\ num_ready' =
                          Cardinality({h \in StoredSlaveStates : kv[h].done})
                    /\ wakes' = wakes + 1
                    /\ mpc' = "wake_report"
            /\ UNCHANGED <<failure, raised>>
    /\ UNCHANGED <<assertsEnabled, clock, rollout, kv, storeIndex, reports,
                   nextRunId, cspc, cs_run_id, payload, state, started_at,
                   slaves, notified, num_slaves, timed_out, waitStarted,
                   wake_at, loop_exit, pending>>
    /\ UNCHANGED <<svars, cvars, yvars>>

\* a slip: the deadline is tested before the ready count
WakeReport_deadline_first ==
    /\ mpc = "wake_report"
    /\ LET r == create_or_update_check_run(state.run_id,
                    CheckPayload("in_progress", "None", "Preparing hosts (ready)",
                                 num_ready, num_slaves, <<started_at>>))
           elapsed == datetime_sub(datetime_now, started_at)
       IN  /\ reports' = r.reports
           /\ nextRunId' = r.nextRunId
           /\ IF r.exc # "none"
              THEN /\ raised' = r.exc
                   /\ mpc' = "wait_raised"
                   /\ UNCHANGED <<timed_out, wake_at, loop_exit>>
              ELSE /\ wake_at' = clock
                   /\ IF elapsed.exc # "none"
                      THEN /\ raised' = elapsed.exc
                           /\ mpc' = "wait_raised"
                           /\ UNCHANGED <<timed_out, loop_exit>>
                      ELSE IF elapsed.seconds > Timeout
                      THEN /\ timed_out' = TRUE
                           /\ loop_exit' = "timeout"
                           /\ mpc' = "final_report"
                           /\ UNCHANGED raised
                      ELSE IF num_ready >= num_slaves
                      THEN /\ loop_exit' = "success"
                           /\ mpc' = "final_report"
                           /\ UNCHANGED <<timed_out, raised>>
                      ELSE /\ mpc' = "watch"
                           /\ UNCHANGED <<timed_out, raised, loop_exit>>
    /\ UNCHANGED <<assertsEnabled, clock, rollout, kv, storeIndex, cspc,
                   cs_run_id, payload, state, started_at, slaves, notified,
                   num_slaves, num_ready, index, failure, waitStarted, wakes,
                   pending>>
    /\ UNCHANGED <<svars, cvars, yvars>>

\* the in-progress check run of this wake, then the exit conditions
\* (tasks.py:85-109)
WakeReport ==
    /\ mpc = "wake_report"
    /\ LET r == create_or_update_check_run(state.run_id,
                    CheckPayload("in_progress", "None", "Preparing hosts (ready)",
                                 num_ready, num_slaves, <<started_at>>))
           elapsed == datetime_sub(datetime_now, started_at)
       IN  /\ reports' = r.reports
           /\ nextRunId' = r.nextRunId
           /\ IF r.exc # "none"
              THEN /\ raised' = r.exc
                   /\ mpc' = "wait_raised"
                   /\ UNCHANGED <<timed_out, wake_at, loop_exit>>
              ELSE /\ wake_at' = clock
                   /\ IF num_ready >= num_slaves
                      THEN /\ loop_exit' = "success"
                           /\ mpc' = "final_report"
                           /\ UNCHANGED <<timed_out, raised>>
                      ELSE IF elapsed.exc # "none"
                      THEN /\ raised' = elapsed.exc
                           /\ mpc' = "wait_raised"
                           /\ UNCHANGED <<timed_out, loop_exit>>
                      ELSE IF elapsed.seconds > Timeout
                      THEN /\ timed_out' = TRUE
                           /\ loop_exit' = "timeout"
                           /\ mpc' = "final_report"
                           /\ UNCHANGED raised
                      ELSE /\ mpc' = "watch"
                           /\ UNCHANGED <<timed_out, raised, loop_exit>>
    /\ UNCHANGED <<assertsEnabled, clock, rollout, kv, storeIndex, cspc,
                   cs_run_id, payload, state, started_at, slaves, notified,
                   num_slaves, num_ready, index, failure, waitStarted, wakes,
                   pending>>
    /\ UNCHANGED <<svars, cvars, yvars>>

\* a slip: the outcome is stored in the VersionState after the completed
\* check run
FinalReport_storing ==
    /\ mpc = "final_report"
    /\ LET r == create_or_update_check_run(state.run_id,
                    CheckPayload("completed",
                                 IF timed_out THEN "failure" ELSE "success",
                                 IF timed_out
                                 THEN "Timed out while preparing hosts"
                                 ELSE "All hosts ready",
                                 IF timed_out THEN num_ready ELSE 0,
                                 IF timed_out THEN num_slaves ELSE 0,
                                 <<datetime_now>>))
       IN  /\ reports' = r.reports
           /\ nextRunId' = r.nextRunId
           /\ IF r.exc # "none"
              THEN raised' = r.exc /\ mpc' = "wait_raised" /\ UNCHANGED rollout
              ELSE /\ mpc' = "done"
                   /\ rollout' = [rollout EXCEPT !.status =
                          IF timed_out THEN "failed" ELSE "succeeded"]
                   /\ UNCHANGED raised
    /\ UNCHANGED <<assertsEnabled, clock, kv, storeIndex, cspc,
                   cs_run_id, payload, state, started_at, slaves, notified,
                   num_slaves, num_ready, timed_out, index, failure,
                   waitStarted, wake_at, wakes, loop_exit, pending>>
    /\ UNCHANGED <<svars, cvars, yvars>>

\* the completed check run after the loop (tasks.py:111-143)
FinalReport ==
    /\ mpc = "final_report"
    /\ LET r == create_or_update_check_run(state.run_id,
                    CheckPayload("completed",
                                 IF timed_out THEN "failure" ELSE "success",
                                 IF timed_out
                                 THEN "Timed out while preparing hosts"
                                 ELSE "All hosts ready",
                                 IF timed_out THEN num_ready ELSE 0,
                                 IF timed_out THEN num_slaves ELSE 0,
                                 <<datetime_now>>))
       IN  /\ reports' = r.reports
           /\ nextRunId' = r.nextRunId
           /\ IF r.exc # "none"
              THEN raised' = r.exc /\ mpc' = "wait_raised"
              ELSE mpc' = "done" /\ UNCHANGED raised
    /\ UNCHANGED <<assertsEnabled, clock, rollout, kv, storeIndex, cspc,
                   cs_run_id, payload, state, started_at, slaves, notified,
                   num_slaves, num_ready, timed_out, index, failure,
                   waitStarted, wake_at, wakes, loop_exit, pending>>
    /\ UNCHANGED <<svars, cvars, yvars>>

-----------------------------------------------------------------------------
(* The environment of the master: time and the slaves                       *)

\* time passes
Tick ==
    /\ clock + TickSeconds <= MaxClock
    /\ clock' = clock + TickSeconds
    /\ UNCHANGED <<assertsEnabled, rollout, kv, storeIndex, reports, nextRunId,
                   cspc, cs_run_id, mpc, payload, state, started_at, slaves,
                   notified, num_slaves, num_ready, timed_out, index, failure,
                   raised, waitStarted, wake_at, wakes, loop_exit, pending>>
    /\ UNCHANGED <<svars, cvars, yvars>>

\* a notified slave starts prepare_host: SlaveVersionState(done=False) is
\* stored under its own key (tasks.py:190-194)
SlaveStart(h) ==
    /\ pending[h] = "start"
    /\ kv' = [kv EXCEPT ![h] = SlaveVersionState(FALSE, "None")]
    /\ storeIndex' = storeIndex + 1
    /\ pending' = [pending EXCEPT ![h] = "preparing"]
    /\ UNCHANGED <<assertsEnabled, clock, rollout, reports, nextRunId, cspc,
                   cs_run_id, mpc, payload, state, started_at, slaves,
                   notified, num_slaves, num_ready, timed_out, index, failure,
                   raised, waitStarted, wake_at, wakes, loop_exit>>
    /\ UNCHANGED <<svars, cvars, yvars>>

\* its pipeline ended: SlaveVersionState(done=True, success, message) is stored
\* (tasks.py:208-212)
SlaveFinish(h, success) ==
    /\ pending[h] = "preparing"
    /\ kv' = [kv EXCEPT ![h] = SlaveVersionState(TRUE, success)]
    /\ storeIndex' = storeIndex + 1
    /\ pending' = [pending EXCEPT ![h] = "finished"]
    /\ UNCHANGED <<assertsEnabled, clock, rollout, reports, nextRunId, cspc,
                   cs_run_id, mpc, payload, state, started_at, slaves,
                   notified, num_slaves, num_ready, timed_out, index, failure,
                   raised, waitStarted, wake_at, wakes, loop_exit>>
    /\ UNCHANGED <<svars, cvars, yvars>>

-----------------------------------------------------------------------------
(* Initial state and steps of the master *)

MasterInit ==
    /\ assertsEnabled \in BOOLEAN
    /\ clock = 0
    /\ rollout = NoVersionState
    /\ kv = [h \in Hosts |-> NoSlaveState]
    /\ storeIndex = 1
    /\ reports = <<>>
    /\ nextRunId = 1
    /\ cspc = "idle"
    /\ cs_run_id = 0
    /\ mpc = "idle"
    /\ payload = [ref |-> <<>>]
    /\ state = NoVersionState
    /\ started_at = [t |-> 0, aware |-> TRUE]
    /\ slaves = {}
    /\ notified = {}
    /\ num_slaves = 0
    /\ num_ready = 0
    /\ timed_out = FALSE
    /\ index = 0
    /\ failure = "none"
    /\ raised = "none"
    /\ waitStarted = FALSE
    /\ wake_at = 0
    /\ wakes = 0
    /\ loop_exit = "none"
    /\ pending = [h \in Hosts |-> "none"]

MasterStep ==
    \/ \E a \in CheckSuiteActions : CheckSuiteEvent(a)
    \/ CheckSuitePut
    \/ \E ref \in Refs : TarballReadyEvent(ref)
    \/ \E ok \in BOOLEAN : GetState(ok)
    \/ ReportNeutral
    \/ \E ok \in BOOLEAN, found \in SUBSET Hosts : Discover(ok, found)
    \/ \E h \in Hosts, ok \in BOOLEAN : NotifySlave(h, ok)
    \/ \E ok \in BOOLEAN : FanoutDone(ok)
    \/ ReportInProgress
    \/ Except
    \/ WatchIssue
    \/ \E ok \in BOOLEAN : WatchResponse(ok)
    \/ WakeReport
    \/ FinalReport
    \/ Tick
    \/ \E h \in Hosts : SlaveStart(h)
    \/ \E h \in Hosts, s \in {"True", "False"} : SlaveFinish(h, s)

-----------------------------------------------------------------------------
(* The slave's provisioning pipeline: prepare_host and _prepare             *)
(* (tasks.py:183-307) on one host, for one commit                           *)

\* what a tarball may hold: python-version (absent, "3.7" or another
\* version) and the optional bin/prepare hook
Artifacts ==
    [python_version : {"absent", "3.7", "3.8"}, hook : BOOLEAN]

\* outcome of a subprocess step: it succeeds, exits non-zero
\* (CalledProcessError, caught by the step) or cannot be started (OSError)
Outcomes == {"ok", "fail", "raise"}

NoResult == [success |-> "None", message |-> "None"]

Result(success, message) == [success |-> success, message |-> message]

NoHostKey ==
    [exists |-> FALSE, done |-> FALSE, success |-> "None", message |-> "None"]

\* types.SlaveVersionState with its message
SlaveState(done, success, message) ==
    [exists |-> TRUE, done |-> done, success |-> success, message |-> message]

\* a slip: open(path, "w") creates or truncates, and never fails
create_lock_file_truncating(exists) == TRUE

\* utils.create_lock_file: open(path, "x") fails when the file exists
create_lock_file(exists) == ~exists

\* a slip: the prepare.done test is left out
prepare_done_exists_never(marker) == FALSE

\* (target_path / "prepare.done").exists() (tasks.py:238)
prepare_done_exists(marker) == marker

\* _get_python_path (tasks.py:369-382): the interpreter, or None
get_python_path(version_string) ==
    IF version_string = "3.7" THEN "PYTHON_37_PATH" ELSE "None"

\* a slip: except subprocess.CalledProcessError in prepare_host
catches_called_process_error(e) == e = "CalledProcessError"

\* except Exception in prepare_host (tasks.py:203)
catches(e) == e \in {"OSError", "CalledProcessError", "HTTPError"}

\* the (success, message) prepare_host stores (tasks.py:196-206)
prepare_host_result(returned, raised_exc) ==
    IF raised_exc # "none"
    THEN Result("False", raised_exc)
    ELSE returned

\* _prepare returns a (success, message) to prepare_host
Return(r, success, message) ==
    /\ ret' = [ret EXCEPT ![r] = Result(success, message)]
    /\ ppc' = [ppc EXCEPT ![r] = "put_final"]
    /\ UNCHANGED exc

\* _prepare raises: prepare_host catches the exception, or it leaves the task
Raise(r, e) ==
    /\ exc' = [exc EXCEPT ![r] = e]
    /\ ppc' = [ppc EXCEPT ![r] = IF catches(e) THEN "put_final" ELSE "raised"]
    /\ UNCHANGED ret

\* _prepare goes on to its next subprocess
Continue(r, next) ==
    /\ ppc' = [ppc EXCEPT ![r] = next]
    /\ UNCHANGED <<ret, exc>>

\* a slip: the lock is removed and success returned, the marker is not written
Finish_without_marker(r) ==
    /\ UNCHANGED prepareDone
    /\ lockFile' = FALSE
    /\ holds' = [holds EXCEPT ![r] = FALSE]
    /\ Return(r, "True", "Prepared and ready for deployment")

\* prepare.done is written and the lock removed (tasks.py:297-307)
Finish(r) ==
    /\ prepareDone' = TRUE
    /\ lockFile' = FALSE
    /\ holds' = [holds EXCEPT ![r] = FALSE]
    /\ Return(r, "True", "Prepared and ready for deployment")

\* PUT /prepare-host: prepare_host becomes a background task
\* (handlers.py:222-235)
PrepareRequest(r) ==
    /\ ppc[r] = "idle"
    /\ ppc' = [ppc EXCEPT ![r] = "put_start"]
    /\ UNCHANGED <<targetDir, lockFile, prepareDone, extracted, artifact,
                   hostKey, ret, exc, steps, holds, contended, writes,
                   putFailed>>
    /\ UNCHANGED <<mvars, cvars, yvars>>

\* a slip: the first put is started but not awaited; the run goes on at once
PutStart_unawaited(r, ok) ==
    /\ ppc[r] = "put_start"
    /\ ppc' = [ppc EXCEPT ![r] = "prepare"]
    /\ UNCHANGED <<targetDir, lockFile, prepareDone, extracted, artifact,
                   hostKey, ret, exc, steps, holds, contended, writes,
                   putFailed>>
    /\ UNCHANGED <<mvars, cvars, yvars>>

\* SlaveVersionState(done=False) is stored (tasks.py:190-194)
PutStart(r, ok) ==
    /\ ppc[r] = "put_start"
    /\ IF ok
       THEN /\ hostKey' = SlaveState(FALSE, "None", "None")
            /\ writes' = [writes EXCEPT ![r] = Append(@, hostKey')]
            /\ ppc' = [ppc EXCEPT ![r] = "prepare"]
            /\ UNCHANGED putFailed
       ELSE /\ putFailed' = [putFailed EXCEPT ![r] = TRUE]
            /\ ppc' = [ppc EXCEPT ![r] = "raised"]
            /\ UNCHANGED <<hostKey, writes>>
    /\ UNCHANGED <<targetDir, lockFile, prepareDone, extracted, artifact, ret,
                   exc, steps, holds, contended>>
    /\ UNCHANGED <<mvars, cvars, yvars>>

\* _prepare up to its first subprocess: mkdir, the lock file, the prepare.done
\* test (tasks.py:223-241)
PrepareBegin(r, outcome) ==
    /\ ppc[r] = "prepare"
    /\ outcome \in {"ok", "raise"}
    /\ IF outcome = "raise"
       THEN /\ Raise(r, "OSError")
            /\ UNCHANGED <<targetDir, lockFile, holds, contended>>
       ELSE /\ targetDir' = TRUE
            /\ IF ~create_lock_file(lockFile)
               THEN /\ contended' = [contended EXCEPT ![r] = TRUE]
                    /\ Return(r, "False", "Someone is already preparing")
                    /\ UNCHANGED <<lockFile, holds>>
               ELSE IF prepare_done_exists(prepareDone)
               THEN /\ lockFile' = FALSE
                    /\ Return(r, "True", "is already prepared")
                    /\ UNCHANGED <<holds, contended>>
               ELSE /\ lockFile' = TRUE
                    /\ holds' = [holds EXCEPT ![r] = TRUE]
                    /\ Continue(r, "download")
                    /\ UNCHANGED contended
    /\ UNCHANGED <<prepareDone, extracted, artifact, hostKey, steps, writes,
                   putFailed>>
    /\ UNCHANGED <<mvars, cvars, yvars>>

\* a slip: the lock is left in place when the download fails
Download_keeping_lock(r, outcome) ==
    /\ ppc[r] = "download"
    /\ steps' = [steps EXCEPT ![r] = @ \cup {"download"}]
    /\ CASE outcome = "ok" -> Continue(r, "extract")
         [] outcome = "fail" -> Return(r, "False", "Failed to download tar")
         [] outcome = "raise" -> Raise(r, "OSError")
    /\ UNCHANGED <<targetDir, lockFile, prepareDone, extracted, artifact,
                   hostKey, holds, contended, writes, putFailed>>
    /\ UNCHANGED <<mvars, cvars, yvars>>

\* _download_tarball (tasks.py:243-253, 310-344)
Download(r, outcome) ==
    /\ ppc[r] = "download"
    /\ steps' = [steps EXCEPT ![r] = @ \cup {"download"}]
    /\ CASE outcome = "ok" ->
                /\ Continue(r, "extract")
                /\ UNCHANGED <<lockFile, holds>>
         [] outcome = "fail" ->
                /\ lockFile' = FALSE
                /\ holds' = [holds EXCEPT ![r] = FALSE]
                /\ Return(r, "False", "Failed to download tar")
         [] outcome = "raise" ->
                /\ Raise(r, "OSError")
                /\ UNCHANGED <<lockFile, holds>>
    /\ UNCHANGED <<targetDir, prepareDone, extracted, artifact, hostKey,
                   contended, writes, putFailed>>
    /\ UNCHANGED <<mvars, cvars, yvars>>

\* a slip: the lock is removed when the extraction fails, as it is when the
\* download fails
Extract_unlinking(r, outcome) ==
    /\ ppc[r] = "extract"
    /\ steps' = [steps EXCEPT ![r] = @ \cup {"extract"}]
    /\ CASE outcome = "ok" ->
                /\ extracted' = TRUE
                /\ IF artifact.python_version = "absent"
                   THEN Return(r, "False", "Missing python-version from tarball")
                   ELSE IF get_python_path(artifact.python_version) = "None"
                   THEN Return(r, "False", "Unsupported python version")
                   ELSE Continue(r, "venv")
                /\ UNCHANGED <<lockFile, holds>>
         [] outcome = "fail" ->
                /\ lockFile' = FALSE
                /\ holds' = [holds EXCEPT ![r] = FALSE]
                /\ Return(r, "False", "Failed to extract tar")
                /\ UNCHANGED extracted
         [] outcome = "raise" ->
                /\ Raise(r, "OSError")
                /\ UNCHANGED <<extracted, lockFile, holds>>
    /\ UNCHANGED <<targetDir, prepareDone, artifact, hostKey, contended, writes,
                   putFailed>>
    /\ UNCHANGED <<mvars, cvars, yvars>>

\* _extract_tar, then the python-version file and _get_python_path
\* (tasks.py:255-274, 347-382)
Extract(r, outcome) ==
    /\ ppc[r] = "extract"
    /\ steps' = [steps EXCEPT ![r] = @ \cup {"extract"}]
    /\ CASE outcome = "ok" ->
                /\ extracted' = TRUE
                /\ IF artifact.python_version = "absent"
                   THEN Return(r, "False", "Missing python-version from tarball")
                   ELSE IF get_python_path(artifact.python_version) = "None"
                   THEN Return(r, "False", "Unsupported python version")
                   ELSE Continue(r, "venv")
         [] outcome = "fail" ->
                /\ Return(r, "False", "Failed to extract tar")
                /\ UNCHANGED extracted
         [] outcome = "raise" ->
                /\ Raise(r, "OSError")
                /\ UNCHANGED extracted
    /\ UNCHANGED <<targetDir, lockFile, prepareDone, artifact, hostKey, holds,
                   contended, writes, putFailed>>
    /\ UNCHANGED <<mvars, cvars, yvars>>

\* a slip: the lock is removed when the venv cannot be created
CreateVenv_unlinking(r, outcome) ==
    /\ ppc[r] = "venv"
    /\ steps' = [steps EXCEPT ![r] = @ \cup {"venv"}]
    /\ CASE outcome = "ok" ->
                /\ Continue(r, "install")
                /\ UNCHANGED <<lockFile, holds>>
         [] outcome = "fail" ->
                /\ lockFile' = FALSE
                /\ holds' = [holds EXCEPT ![r] = FALSE]
                /\ Return(r, "False", "Failed to create venv")
         [] outcome = "raise" ->
                /\ Raise(r, "OSError")
                /\ UNCHANGED <<lockFile, holds>>
    /\ UNCHANGED <<targetDir, prepareDone, extracted, artifact, hostKey,
                   contended, writes, putFailed>>
    /\ UNCHANGED <<mvars, cvars, yvars>>

\* _create_venv (tasks.py:276-280, 385-405)
CreateVenv(r, outcome) ==
    /\ ppc[r] = "venv"
    /\ steps' = [steps EXCEPT ![r] = @ \cup {"venv"}]
    /\ CASE outcome = "ok" -> Continue(r, "install")
         [] outcome = "fail" -> Return(r, "False", "Failed to create venv")
         [] outcome = "raise" -> Raise(r, "OSError")
    /\ UNCHANGED <<targetDir, lockFile, prepareDone, extracted, artifact,
                   hostKey, holds, contended, writes, putFailed>>
    /\ UNCHANGED <<mvars, cvars, yvars>>

\* a slip: the bin/prepare hook is not run; the marker is written after the
\* dependency install
InstallDependencies_skipping_hook(r, outcome) ==
    /\ ppc[r] = "install"
    /\ steps' = [steps EXCEPT ![r] = @ \cup {"install"}]
    /\ CASE outcome = "ok" -> Finish(r)
         [] outcome = "fail" ->
                /\ Return(r, "False", "Failed to install dependencies")
                /\ UNCHANGED <<lockFile, prepareDone, holds>>
         [] outcome = "raise" ->
                /\ Raise(r, "OSError")
                /\ UNCHANGED <<lockFile, prepareDone, holds>>
    /\ UNCHANGED <<targetDir, extracted, artifact, hostKey, contended, writes,
                   putFailed>>
    /\ UNCHANGED <<mvars, cvars, yvars>>

\* _install_dependencies, then the bin/prepare test (tasks.py:282-288, 408-439)
InstallDependencies(r, outcome) ==
    /\ ppc[r] = "install"
    /\ steps' = [steps EXCEPT ![r] = @ \cup {"install"}]
    /\ CASE outcome = "ok" ->
                IF artifact.hook
                THEN /\ Continue(r, "hook")
                     /\ UNCHANGED <<lockFile, prepareDone, holds>>
                ELSE Finish(r)
         [] outcome = "fail" ->
                /\ Return(r, "False", "Failed to install dependencies")
                /\ UNCHANGED <<lockFile, prepareDone, holds>>
         [] outcome = "raise" ->
                /\ Raise(r, "OSError")
                /\ UNCHANGED <<lockFile, prepareDone, holds>>
    /\ UNCHANGED <<targetDir, extracted, artifact, hostKey, contended, writes,
                   putFailed>>
    /\ UNCHANGED <<mvars, cvars, yvars>>

\* _run_script(name="prepare") (tasks.py:288-307, 442-465)
RunScript(r, outcome) ==
    /\ ppc[r] = "hook"
    /\ steps' = [steps EXCEPT ![r] = @ \cup {"hook"}]
    /\ CASE outcome = "ok" -> Finish(r)
         [] outcome = "fail" ->
                /\ Return(r, "False", "Failed to run bootstrap script")
                /\ UNCHANGED <<lockFile, prepareDone, holds>>
         [] outcome = "raise" ->
                /\ Raise(r, "OSError")
                /\ UNCHANGED <<lockFile, prepareDone, holds>>
    /\ UNCHANGED <<targetDir, extracted, artifact, hostKey, contended, writes,
                   putFailed>>
    /\ UNCHANGED <<mvars, cvars, yvars>>

\* SlaveVersionState(done=True, success, message) is stored (tasks.py:208-212)
PutFinal(r, ok) ==
    /\ ppc[r] = "put_final"
    /\ IF ok
       THEN /\ LET res == prepare_host_result(ret[r], exc[r])
               IN  hostKey' = SlaveState(TRUE, res.success, res.message)
            /\ writes' = [writes EXCEPT ![r] = Append(@, hostKey')]
            /\ ppc' = [ppc EXCEPT ![r] = "returned"]
            /\ UNCHANGED putFailed
       ELSE /\ putFailed' = [putFailed EXCEPT ![r] = TRUE]
            /\ ppc' = [ppc EXCEPT ![r] = "raised"]
            /\ UNCHANGED <<hostKey, writes>>
    /\ UNCHANGED <<targetDir, lockFile, prepareDone, extracted, artifact, ret,
                   exc, steps, holds, contended>>
    /\ UNCHANGED <<mvars, cvars, yvars>>

SlaveInit ==
    /\ targetDir = FALSE
    /\ lockFile = FALSE
    /\ prepareDone = FALSE
    /\ extracted = FALSE
    /\ artifact \in Artifacts
    /\ hostKey = NoHostKey
    /\ ppc = [r \in Runs |-> "idle"]
    /\ ret = [r \in Runs |-> NoResult]
    /\ exc = [r \in Runs |-> "none"]
    /\ steps = [r \in Runs |-> {}]
    /\ holds = [r \in Runs |-> FALSE]
    /\ contended = [r \in Runs |-> FALSE]
    /\ writes = [r \in Runs |-> <<>>]
    /\ putFailed = [r \in Runs |-> FALSE]

SlaveStep ==
    \/ \E r \in Runs : PrepareRequest(r)
    \/ \E r \in Runs, ok \in BOOLEAN : PutStart(r, ok)
    \/ \E r \in Runs, o \in Outcomes : PrepareBegin(r, o)
    \/ \E r \in Runs, o \in Outcomes : Download(r, o)
    \/ \E r \in Runs, o \in Outcomes : Extract(r, o)
    \/ \E r \in Runs, o \in Outcomes : CreateVenv(r, o)
    \/ \E r \in Runs, o \in Outcomes : InstallDependencies(r, o)
    \/ \E r \in Runs, o \in Outcomes : RunScript(r, o)
    \/ \E r \in Runs, ok \in BOOLEAN : PutFinal(r, ok)

-----------------------------------------------------------------------------
(* The watch generators Client.wait and Client.wait_recursive               *)
(* (consul.py:114-148) with a caller that iterates over them                *)

WatchKinds == {"wait", "wait_recursive"}

\* what the store may answer to a blocking query; "no response" is a request
\* that failed without an HTTP response (connection error, read timeout)
Statuses == {"200", "404", "500", "no response"}

NoResponse == [status |-> "none", index |-> 0]

\* a slip: except httpx.HTTPError: ... continue, for every status
is_not_found_any(status) == TRUE

\* e.response.status_code == 404 (consul.py:125, 145)
is_not_found(status) == status = "404"

\* a slip: continue without taking the index of the error response
index_after_not_found_kept(current, header) == current

\* index = int(e.response.headers["X-Consul-Index"]) (consul.py:126, 146)
index_after_not_found(current, header) == header

\* the exception an error response ends the generator with: raise re-raises
\* the HTTPError; without a response e.response is None and reading its
\* status_code raises AttributeError
watch_exception(status) ==
    IF status = "no response" THEN "AttributeError" ELSE "HTTPError"

\* the caller starts to iterate: index = 1 (consul.py:119, 137)
WatchCall(kind) ==
    /\ wpc = "idle"
    /\ wKind' = kind
    /\ wIndex' = 1
    /\ wpc' = "issue"
    /\ UNCHANGED <<wPresent, wStoreIndex, wFrom, wResp, wRaised, wCalls,
                   wYields>>
    /\ UNCHANGED <<mvars, svars, tvars, rvars, xvars, yvars>>

\* self.get / self.get_recursive is awaited with index=index
\* (consul.py:122, 140-142)
WatchGet ==
    /\ wpc = "issue"
    /\ wCalls < MaxCalls
    /\ wFrom' = wIndex
    /\ wCalls' = wCalls + 1
    /\ wpc' = "inflight"
    /\ UNCHANGED <<wKind, wPresent, wStoreIndex, wIndex, wResp, wRaised,
                   wYields>>
    /\ UNCHANGED <<mvars, svars, tvars, rvars, xvars, yvars>>

\* the store answers; 200 and 404 carry the current revision index
\* (consul.py:121-128, 139-148, 154-166)
WatchAnswer(status) ==
    /\ wpc = "inflight"
    /\ status = "200" => wPresent
    /\ status = "404" => ~wPresent
    /\ LET header == IF status \in {"200", "404"} THEN wStoreIndex ELSE 0
       IN  /\ wResp' = [status |-> status, index |-> header]
           /\ IF status = "200"
              THEN /\ wIndex' = header
                   /\ wYields' = wYields + 1
                   /\ wpc' = "yielded"
                   /\ UNCHANGED wRaised
              ELSE IF status # "no response" /\ is_not_found(status)
              THEN /\ wIndex' = index_after_not_found(wIndex, header)
                   /\ wpc' = "issue"
                   /\ UNCHANGED <<wYields, wRaised>>
              ELSE /\ wRaised' = watch_exception(status)
                   /\ wpc' = "raised"
                   /\ UNCHANGED <<wIndex, wYields>>
    /\ UNCHANGED <<wKind, wPresent, wStoreIndex, wFrom, wCalls>>
    /\ UNCHANGED <<mvars, svars, tvars, rvars, xvars, yvars>>

\* the caller asks for the next value: the generator resumes after its yield
WatchResume ==
    /\ wpc = "yielded"
    /\ wpc' = "issue"
    /\ UNCHANGED <<wKind, wPresent, wStoreIndex, wIndex, wFrom, wResp, wRaised,
                   wCalls, wYields>>
    /\ UNCHANGED <<mvars, svars, tvars, rvars, xvars, yvars>>

\* another client of the store writes or deletes under the watched key
StoreChange(present) ==
    /\ wStoreIndex < MaxIndex
    /\ wStoreIndex' = wStoreIndex + 1
    /\ wPresent' = present
    /\ UNCHANGED <<wKind, wpc, wIndex, wFrom, wResp, wRaised, wCalls, wYields>>
    /\ UNCHANGED <<mvars, svars, tvars, rvars, xvars, yvars>>

WatchInit ==
    /\ wKind = "none"
    /\ wPresent = FALSE
    /\ wStoreIndex = 1
    /\ wpc = "idle"
    /\ wIndex = 0
    /\ wFrom = 0
    /\ wResp = NoResponse
    /\ wRaised = "none"
    /\ wCalls = 0
    /\ wYields = 0

WatchStep ==
    \/ \E kind \in WatchKinds : WatchCall(kind)
    \/ WatchGet
    \/ \E status \in Statuses : WatchAnswer(status)
    \/ WatchResume
    \/ \E present \in BOOLEAN : StoreChange(present)

-----------------------------------------------------------------------------
(* The token caches: github._get_auth_token (github.py:260-275) and         *)
(* gcp.get_auth_token (gcp.py:53-63), with concurrent callers               *)

Providers == {"github", "gcp"}
Callers == 1..NumCallers
Keys == 1..NumKeys

\* the lifetimes the identity provider may give a token
Lifetimes == {TokenMargin - 10, TokenMargin, TokenMargin + 10}

\* AUTH_TOKENS.get(key, (None, None))
NoToken == [token |-> 0, expiry |-> 0]

NoAnswer == [ok |-> FALSE, token |-> 0, issued |-> 0, lifetime |-> 0]

\* the current time as each module reads it: utils.now() in github.py,
\* time.time() in gcp.py
token_now == IF provider = "github" THEN utils_now.t ELSE clock

\* github.py compares the expiry parsed with %z, which is aware, to
\* utils.now() + timedelta: a naive now would raise TypeError
compare_raises(entry) ==
    provider = "github" /\ entry.token # 0 /\ ~utils_now.aware

\* a slip: >= in the validity test
still_valid_inclusive(entry, now) ==
    entry.token # 0 /\ entry.expiry >= now + TokenMargin

\* token and expiry and expiry > now + 30 (github.py:268, gcp.py:57)
still_valid(entry, now) ==
    entry.token # 0 /\ entry.expiry > now + TokenMargin

\* a slip: the cache keeps the later of the old and the new expiry
store_token_keeping_expiry(cache, key, token, expiry) ==
    [cache EXCEPT ![key] =
        [token |-> token,
         expiry |-> IF @.expiry > expiry THEN @.expiry ELSE expiry]]

\* AUTH_TOKENS[key] = (token, expiry) (github.py:273, gcp.py:61)
store_token(cache, key, token, expiry) ==
    [cache EXCEPT ![key] = [token |-> token, expiry |-> expiry]]

\* what _request_auth_token returns for a successful answer: github parses
\* expires_at (github.py:254-257), gcp adds expires_in to time.time()
\* (gcp.py:47-50)
request_auth_token(answer) ==
    [token |-> answer.token,
     expiry |-> IF provider = "github"
                THEN answer.issued + answer.lifetime
                ELSE clock + answer.lifetime]

\* the call up to its first await: the cache lookup and the validity test
\* (github.py:265-272, gcp.py:55-60); each caller is one invocation
TokenCall(c, key) ==
    /\ tpc[c] = "idle"
    /\ tkey' = [tkey EXCEPT ![c] = key]
    /\ tresp' = [tresp EXCEPT ![c] = NoAnswer]
    /\ tminted' = [tminted EXCEPT ![c] = NoToken]
    /\ LET entry == AUTH_TOKENS[key]
       IN  IF compare_raises(entry)
           THEN /\ tpc' = [tpc EXCEPT ![c] = "raised"]
                /\ tresult' = [tresult EXCEPT ![c] = 0]
                /\ thit' = [thit EXCEPT ![c] = FALSE]
                /\ tmints' = [tmints EXCEPT ![c] = 0]
           ELSE IF still_valid(entry, token_now)
           THEN /\ tpc' = [tpc EXCEPT ![c] = "returned"]
                /\ tresult' = [tresult EXCEPT ![c] = entry.token]
                /\ thit' = [thit EXCEPT ![c] = TRUE]
                /\ tmints' = [tmints EXCEPT ![c] = 0]
           ELSE /\ tpc' = [tpc EXCEPT ![c] = "minting"]
                /\ tresult' = [tresult EXCEPT ![c] = 0]
                /\ thit' = [thit EXCEPT ![c] = FALSE]
                /\ tmints' = [tmints EXCEPT ![c] = 1]
    /\ UNCHANGED <<provider, AUTH_TOKENS, nextToken, lastStore>>
    /\ UNCHANGED <<mvars, svars, wvars, rvars, xvars, yvars>>

\* the identity provider answers the mint request: a fresh token with its
\* lifetime, or an error (github.py:246-251, gcp.py:33-45)
TokenServe(c, ok, lifetime) ==
    /\ tpc[c] = "minting"
    /\ IF ok
       THEN /\ tresp' = [tresp EXCEPT ![c] =
                            [ok |-> TRUE, token |-> nextToken,
                             issued |-> clock, lifetime |-> lifetime]]
            /\ nextToken' = nextToken + 1
       ELSE /\ tresp' = [tresp EXCEPT ![c] = NoAnswer]
            /\ UNCHANGED nextToken
    /\ tpc' = [tpc EXCEPT ![c] = "responded"]
    /\ UNCHANGED <<provider, AUTH_TOKENS, tkey, tresult, thit, tmints, tminted,
                   lastStore>>
    /\ UNCHANGED <<mvars, svars, wvars, rvars, xvars, yvars>>

\* a slip: the mint request is repeated until it succeeds
TokenReceive_retrying(c) ==
    /\ tpc[c] = "responded"
    /\ IF ~tresp[c].ok
       THEN /\ tpc' = [tpc EXCEPT ![c] = "minting"]
            /\ tmints' = [tmints EXCEPT ![c] = @ + 1]
            /\ UNCHANGED <<AUTH_TOKENS, tminted, lastStore, tresult>>
       ELSE LET pair == request_auth_token(tresp[c])
            IN  /\ AUTH_TOKENS' =
                      store_token(AUTH_TOKENS, tkey[c], pair.token, pair.expiry)
                /\ tminted' = [tminted EXCEPT ![c] = pair]
                /\ lastStore' = [lastStore EXCEPT ![tkey[c]] = pair]
                /\ tresult' = [tresult EXCEPT ![c] = pair.token]
                /\ tpc' = [tpc EXCEPT ![c] = "returned"]
                /\ UNCHANGED tmints
    /\ UNCHANGED <<provider, nextToken, tkey, tresp, thit>>
    /\ UNCHANGED <<mvars, svars, wvars, rvars, xvars, yvars>>

\* the await of _request_auth_token ends: raise_for_status raises, or the
\* pair is stored and the token returned (github.py:271-275, gcp.py:60-63)
TokenReceive(c) ==
    /\ tpc[c] = "responded"
    /\ IF ~tresp[c].ok
       THEN /\ tpc' = [tpc EXCEPT ![c] = "raised"]
            /\ UNCHANGED <<AUTH_TOKENS, tminted, lastStore, tresult>>
       ELSE LET pair == request_auth_token(tresp[c])
            IN  /\ AUTH_TOKENS' =
                      store_token(AUTH_TOKENS, tkey[c], pair.token, pair.expiry)
                /\ tminted' = [tminted EXCEPT ![c] = pair]
                /\ lastStore' = [lastStore EXCEPT ![tkey[c]] = pair]
                /\ tresult' = [tresult EXCEPT ![c] = pair.token]
                /\ tpc' = [tpc EXCEPT ![c] = "returned"]
    /\ UNCHANGED <<provider, nextToken, tkey, tresp, thit, tmints>>
    /\ UNCHANGED <<mvars, svars, wvars, rvars, xvars, yvars>>

\* time passes while tokens are requested and used
TokenTick ==
    /\ clock < MaxTokenClock
    /\ Tick

TokenInit ==
    /\ AUTH_TOKENS = [k \in Keys |-> NoToken]
    /\ nextToken = 1
    /\ tpc = [c \in Callers |-> "idle"]
    /\ tkey = [c \in Callers |-> 1]
    /\ tresp = [c \in Callers |-> NoAnswer]
    /\ tresult = [c \in Callers |-> 0]
    /\ thit = [c \in Callers |-> FALSE]
    /\ tmints = [c \in Callers |-> 0]
    /\ tminted = [c \in Callers |-> NoToken]
    /\ lastStore = [k \in Keys |-> NoToken]

TokenStep ==
    \/ \E c \in Callers, key \in Keys : TokenCall(c, key)
    \/ \E c \in Callers, ok \in BOOLEAN, lifetime \in Lifetimes :
          TokenServe(c, ok, lifetime)
    \/ \E c \in Callers : TokenReceive(c)

-----------------------------------------------------------------------------
(* github._create_or_update_check_run (github.py:100-141) with one caller   *)
(* that reports again and again                                             *)

\* the statuses a caller may report
CheckStatuses == {"queued", "in_progress", "completed"}

\* the payloads of the callers: queued without a timestamp
\* (handlers.py:35-48), in progress with an aware started_at
\* (handlers.py:165-180), completed with a naive completed_at
\* (tasks.py:112-143)
Payload(status) ==
    CASE status = "queued" ->
            CheckPayload("queued", "None", "Waiting for tarball", 0, 0, <<>>)
      [] status = "in_progress" ->
            CheckPayload("in_progress", "None", "Preparing hosts", 0, 0,
                         <<utils_now>>)
      [] status = "completed" ->
            CheckPayload("completed", "success", "All hosts ready", 0, 0,
                         <<datetime_now>>)

\* the call up to its first await: method and url (github.py:111-119); a
\* run_id passed is the id of a run the API has created
CheckRunCall(run_id, status) ==
    /\ crpc \in {"idle", "returned", "raised"}
    /\ run_id < nextRunId
    /\ crCalls < MaxReportCalls
    /\ cr_run_id' = run_id
    /\ cr_payload' = Payload(status)
    /\ crResult' = 0
    /\ crRaised' = "none"
    /\ crSent' = 0
    /\ crCalls' = crCalls + 1
    /\ crpc' = "token"
    /\ UNCHANGED <<mvars, svars, wvars, tvars, xvars, yvars>>

\* _get_auth_token returns or raises; with the token the payload is encoded
\* and the request sent (github.py:119-132)
CheckRunSend(ok) ==
    /\ crpc = "token"
    /\ IF ~ok
       THEN /\ crRaised' = "HTTPError"
            /\ crpc' = "raised"
            /\ UNCHANGED crSent
       ELSE IF create_or_update_check_run(cr_run_id, cr_payload).exc # "none"
       THEN /\ crRaised' =
                  create_or_update_check_run(cr_run_id, cr_payload).exc
            /\ crpc' = "raised"
            /\ UNCHANGED crSent
       ELSE /\ crSent' = crSent + 1
            /\ crpc' = "request"
            /\ UNCHANGED crRaised
    /\ UNCHANGED <<cr_run_id, cr_payload, crResult, crCalls>>
    /\ UNCHANGED <<mvars, svars, wvars, tvars, xvars, yvars>>

\* the API answers: raise_for_status raises, or the run id is returned, taken
\* from the response when run_id was None (github.py:133-141)
CheckRunResponse(ok) ==
    /\ crpc = "request"
    /\ IF ~ok
       THEN /\ crRaised' = "HTTPError"
            /\ crpc' = "raised"
            /\ UNCHANGED <<reports, nextRunId, crResult>>
       ELSE LET r == create_or_update_check_run(cr_run_id, cr_payload)
            IN  /\ reports' = r.reports
                /\ nextRunId' = r.nextRunId
                /\ crResult' = r.run_id
                /\ crpc' = "returned"
                /\ UNCHANGED crRaised
    /\ UNCHANGED <<cr_run_id, cr_payload, crSent, crCalls>>
    /\ UNCHANGED <<assertsEnabled, clock, rollout, kv, storeIndex, cspc,
                   cs_run_id, mpc, payload, state, started_at, slaves,
                   notified, num_slaves, num_ready, timed_out, index, failure,
                   raised, waitStarted, wake_at, wakes, loop_exit, pending>>
    /\ UNCHANGED <<svars, wvars, tvars, xvars, yvars>>

CheckRunInit ==
    /\ crpc = "idle"
    /\ cr_run_id = 0
    /\ cr_payload = CheckPayload("None", "None", "None", 0, 0, <<>>)
    /\ crResult = 0
    /\ crRaised = "none"
    /\ crSent = 0
    /\ crCalls = 0

CheckRunStep ==
    \/ \E run_id \in 0..MaxReportCalls, status \in CheckStatuses :
          CheckRunCall(run_id, status)
    \/ \E ok \in BOOLEAN : CheckRunSend(ok)
    \/ \E ok \in BOOLEAN : CheckRunResponse(ok)

-----------------------------------------------------------------------------
(* The webhook ingress: require_github_webhook_signature                    *)
(* (decorators.py:16-33), github.verify_webhook_signature (github.py:23-35) *)
(* and github_webhook (server.py:12-23)                                     *)

\* settings.GITHUB_WEBHOOK_SECRET, encoded (github.py:20)
WEBHOOK_SECRET == "secret"

\* the raw bodies a request may carry: the empty body, which is not JSON, and
\* the JSON payload of its event
Bodies == {"", "event"}

\* the x-github-event header, "none" when the request has none
Events == {"check_suite", "deployment", "push", "none"}

\* the digest names hashlib knows
DigestMethods == {"sha1", "md5"}

\* hmac.new(key, msg=msg, digestmod=digestmod).hexdigest(): one string for
\* each key, message and digest
hexdigest(key, msg, digestmod) ==
    digestmod \o "(" \o key \o "," \o msg \o ")"

\* the values a signature header may have, told by kind; a value is the
\* sequence of its pieces, "=" being the character the code splits on, and the
\* empty sequence is the empty string, which is also what a missing header
\* reads as (decorators.py:27)
HeaderKinds ==
    {"absent", "blabla", "sha1 of the body", "sha1 of another body",
     "sha1 under another secret", "md5 of the body", "unknown digest",
     "two separators"}

Header(kind, body) ==
    CASE kind = "absent" -> <<>>
      [] kind = "blabla" -> <<"blabla">>
      [] kind = "sha1 of the body" ->
            <<"sha1", "=", hexdigest(WEBHOOK_SECRET, body, "sha1")>>
      [] kind = "sha1 of another body" ->
            <<"sha1", "=", hexdigest(WEBHOOK_SECRET, "tampered", "sha1")>>
      [] kind = "sha1 under another secret" ->
            <<"sha1", "=", hexdigest("guess", body, "sha1")>>
      [] kind = "md5 of the body" ->
            <<"md5", "=", hexdigest(WEBHOOK_SECRET, body, "md5")>>
      [] kind = "unknown digest" ->
            <<"crc", "=", hexdigest(WEBHOOK_SECRET, body, "sha1")>>
      [] kind = "two separators" ->
            <<"sha1", "=", hexdigest(WEBHOOK_SECRET, body, "sha1"), "=", "x">>

\* str.split(sep, maxsplit): the parts between the first maxsplit separators
RECURSIVE split(_, _, _)
split(s, sep, maxsplit) ==
    LET seps == {i \in 1..Len(s) : s[i] = sep}
    IN  IF maxsplit = 0 \/ seps = {}
        THEN <<s>>
        ELSE LET i == CHOOSE k \in seps : \A j \in seps : k <= j
             IN  <<SubSeq(s, 1, i - 1)>>
                    \o split(SubSeq(s, i + 1, Len(s)), sep, maxsplit - 1)

\* the string a sequence of pieces spells
RECURSIVE join(_)
join(pieces) ==
    IF pieces = <<>> THEN "" ELSE Head(pieces) \o join(Tail(pieces))

\* hmac.compare_digest on two strings
compare_digest(a, b) == a = b

\* github.verify_webhook_signature: "True", "False", or the exception that
\* hmac.new raises outside the try block for a digest hashlib does not know
verify_webhook_signature(signature_header, body) ==
    LET parts == split(signature_header, "=", MaxSplit)
    IN  IF Len(parts) # 2
        THEN "False"
        ELSE LET method == join(parts[1])
                 signature == join(parts[2])
             IN  IF method \notin DigestMethods
                 THEN "ValueError"
                 ELSE IF compare_digest(signature,
                                        hexdigest(WEBHOOK_SECRET, body, method))
                 THEN "True"
                 ELSE "False"

NoRequest == [hub |-> <<>>, github |-> <<>>, event |-> "none", body |-> ""]

\* a POST to /github-webhook arrives; hub and github are its x-hub-signature
\* and x-github-signature headers
WebhookPost(hubKind, githubKind, event, body) ==
    /\ whpc = "idle"
    /\ request' = [hub |-> Header(hubKind, body),
                   github |-> Header(githubKind, body),
                   event |-> event, body |-> body]
    /\ whpc' = "verify"
    /\ UNCHANGED <<whStatus, whRaised, dvars, nowAware>>
    /\ UNCHANGED <<mvars, svars, wvars, tvars, rvars, yvars>>

\* the wrapper after await request.body() (decorators.py:26-31) and the
\* dispatch by event type (server.py:18-23); the handlers decode the body
\* first (decode_payload, decorators.py:48-51)
WebhookVerify ==
    /\ whpc = "verify"
    /\ LET verdict == verify_webhook_signature(request.github, request.body)
       IN  CASE verdict = "False" ->
                   /\ whStatus' = 401
                   /\ whpc' = "responded"
                   /\ UNCHANGED whRaised
             [] verdict = "ValueError" ->
                   /\ whRaised' = "ValueError"
                   /\ whStatus' = 500
                   /\ whpc' = "responded"
             [] verdict = "True" ->
                   IF request.event \in {"check_suite", "deployment"}
                   THEN IF request.body = "event"
                        THEN /\ whpc' = request.event
                             /\ UNCHANGED <<whStatus, whRaised>>
                        ELSE /\ whStatus' = 400
                             /\ whpc' = "responded"
                             /\ UNCHANGED whRaised
                   ELSE /\ whStatus' = 200
                        /\ whpc' = "responded"
                        /\ UNCHANGED whRaised
    /\ UNCHANGED <<request, dvars, nowAware>>
    /\ UNCHANGED <<mvars, svars, wvars, tvars, rvars, yvars>>

\* handlers.check_suite_event for the request (server.py:20)
WebhookCheckSuite(action) ==
    /\ whpc = "check_suite"
    /\ CheckSuiteEvent(action)

\* the VersionState the handler stores (handlers.py:52-62)
WebhookCheckSuitePut ==
    /\ whpc = "check_suite"
    /\ CheckSuitePut

\* its Response (handlers.py:68)
WebhookCheckSuiteResponse ==
    /\ whpc = "check_suite"
    /\ cspc = "done"
    /\ whStatus' = 200
    /\ whpc' = "responded"
    /\ UNCHANGED <<request, whRaised, dvars, nowAware>>
    /\ UNCHANGED <<mvars, svars, wvars, tvars, rvars, yvars>>

\* handlers.deployment_event (handlers.py:71-98): for this environment
\* tasks.deploy becomes a background task
DeploymentEvent(this_environment) ==
    /\ whpc = "deployment"
    /\ whStatus' = 200
    /\ whpc' = "responded"
    /\ IF this_environment
       THEN dpc' = "get" /\ deployment_id' = 1
       ELSE UNCHANGED <<dpc, deployment_id>>
    /\ UNCHANGED <<request, whRaised, d_state, d_ret, d_hook, nowAware>>
    /\ UNCHANGED <<mvars, svars, wvars, tvars, rvars, yvars>>

\* deploy reads the VersionState and sets its deployment_id
\* (tasks.py:157-159); a missing key is a 404, raised by raise_for_status
DeployGet(ok) ==
    /\ dpc = "get"
    /\ IF ok /\ rollout.exists
       THEN /\ d_state' = [rollout EXCEPT !.deployment_id = deployment_id]
            /\ dpc' = "put"
       ELSE /\ dpc' = "raised"
            /\ UNCHANGED d_state
    /\ UNCHANGED <<deployment_id, d_ret, d_hook, hvars, nowAware>>
    /\ UNCHANGED <<mvars, svars, wvars, tvars, rvars, yvars>>

\* deploy stores the VersionState it read (tasks.py:160)
DeployPut(ok) ==
    /\ dpc = "put"
    /\ IF ok
       THEN /\ rollout' = d_state
            /\ storeIndex' = storeIndex + 1
            /\ dpc' = "check"
       ELSE /\ dpc' = "raised"
            /\ UNCHANGED <<rollout, storeIndex>>
    /\ UNCHANGED <<d_state, deployment_id, d_ret, d_hook, hvars, nowAware>>
    /\ UNCHANGED <<assertsEnabled, clock, kv, reports, nextRunId, cspc,
                   cs_run_id, mpc, payload, state, started_at, slaves,
                   notified, num_slaves, num_ready, timed_out, index, failure,
                   raised, waitStarted, wake_at, wakes, loop_exit, pending>>
    /\ UNCHANGED <<svars, wvars, tvars, rvars, yvars>>

\* a slip: the prepare.done test is left out
DeployCheck_skipping_marker ==
    /\ dpc = "check"
    /\ IF ~targetDir
       THEN /\ d_ret' = Result("False", "Version does not exist")
            /\ dpc' = "done"
            /\ UNCHANGED d_hook
       ELSE /\ d_hook' = TRUE
            /\ dpc' = "hook"
            /\ UNCHANGED d_ret
    /\ UNCHANGED <<d_state, deployment_id, hvars, nowAware>>
    /\ UNCHANGED <<mvars, svars, wvars, tvars, rvars, yvars>>

\* the tests of the version directory and of prepare.done, then the start of
\* bin/deploy (tasks.py:162-170)
DeployCheck ==
    /\ dpc = "check"
    /\ IF ~targetDir
       THEN /\ d_ret' = Result("False", "Version does not exist")
            /\ dpc' = "done"
            /\ UNCHANGED d_hook
       ELSE IF ~prepare_done_exists(prepareDone)
       THEN /\ d_ret' = Result("False", "Version is not prepared")
            /\ dpc' = "done"
            /\ UNCHANGED d_hook
       ELSE /\ d_hook' = TRUE
            /\ dpc' = "hook"
            /\ UNCHANGED d_ret
    /\ UNCHANGED <<d_state, deployment_id, hvars, nowAware>>
    /\ UNCHANGED <<mvars, svars, wvars, tvars, rvars, yvars>>

\* bin/deploy ends (tasks.py:170-175, 442-465)
DeployHook(outcome) ==
    /\ dpc = "hook"
    /\ CASE outcome = "ok" ->
                /\ d_ret' = Result("True", "Finished deploy")
                /\ dpc' = "done"
         [] outcome = "fail" ->
                /\ d_ret' = Result("False", "Failed to run deploy script")
                /\ dpc' = "done"
         [] outcome = "raise" ->
                /\ dpc' = "raised"
                /\ UNCHANGED d_ret
    /\ UNCHANGED <<d_state, deployment_id, d_hook, hvars, nowAware>>
    /\ UNCHANGED <<mvars, svars, wvars, tvars, rvars, yvars>>

WebhookInit ==
    /\ whpc = "idle"
    /\ request = NoRequest
    /\ whStatus = 0
    /\ whRaised = "none"

DeployInit ==
    /\ dpc = "idle"
    /\ d_state = NoVersionState
    /\ deployment_id = 0
    /\ d_ret = NoResult
    /\ d_hook = FALSE

WebhookStep ==
    \/ \E hubKind \in HeaderKinds, githubKind \in HeaderKinds,
          event \in Events, body \in Bodies :
          WebhookPost(hubKind, githubKind, event, body)
    \/ WebhookVerify
    \/ \E a \in CheckSuiteActions : WebhookCheckSuite(a)
    \/ WebhookCheckSuitePut
    \/ WebhookCheckSuiteResponse
    \/ \E e \in BOOLEAN : DeploymentEvent(e)

\* the deployment task up to its tests of the version directory
DeployStep ==
    \/ \E ok \in BOOLEAN : DeployGet(ok)
    \/ \E ok \in BOOLEAN : DeployPut(ok)
    \/ DeployCheck

ClientsInit ==
    /\ WatchInit
    /\ TokenInit
    /\ provider = "github"
    /\ CheckRunInit
    /\ WebhookInit
    /\ DeployInit
    /\ nowAware = TRUE
    /\ wait_began_at = 0
    /\ rollouts = 0

-----------------------------------------------------------------------------
(* Specifications *)

\* the master, its store and its slaves
InitMaster ==
    /\ MasterInit
    /\ SlaveInit
    /\ artifact = [python_version |-> "3.7", hook |-> FALSE]
    /\ ClientsInit

NextMaster == MasterStep

SpecMaster == InitMaster /\ [][NextMaster]_vars

\* the master with check_suite events delivered again and again for the
\* commit, also while a rollout of it is under way
NextMasterSuites ==
    \/ MasterStep
    \/ CheckSuiteAgain

SpecMasterSuites == InitMaster /\ [][NextMasterSuites]_vars

\* the master with a second tarball-ready event for the commit after the
\* rollout of the first has ended
NextMasterRollouts ==
    \/ MasterStep
    \/ TarballReadyAgain

SpecMasterRollouts == InitMaster /\ [][NextMasterRollouts]_vars

\* the same, with the master's flow, the store and the clock never starved
SpecMasterFair ==
    /\ SpecMaster
    /\ WF_vars(WatchIssue)
    /\ WF_vars(\E ok \in BOOLEAN : WatchResponse(ok))
    /\ WF_vars(WakeReport)
    /\ WF_vars(FinalReport)
    /\ WF_vars(Tick)

\* one slave host with concurrent prepare_host runs
InitSlave ==
    /\ SlaveInit
    /\ MasterInit
    /\ assertsEnabled = TRUE
    /\ ClientsInit

NextSlave == SlaveStep

SpecSlave == InitSlave /\ [][NextSlave]_vars

\* one watch generator, its caller and the store
InitWatch == InitMaster /\ assertsEnabled = TRUE

NextWatch == WatchStep

SpecWatch == InitWatch /\ [][NextWatch]_vars

\* the token cache of either module, its callers, the identity provider and
\* the clock
InitToken ==
    /\ MasterInit
    /\ assertsEnabled = TRUE
    /\ SlaveInit
    /\ artifact = [python_version |-> "3.7", hook |-> FALSE]
    /\ WatchInit
    /\ TokenInit
    /\ provider \in Providers
    /\ CheckRunInit
    /\ WebhookInit
    /\ DeployInit
    /\ nowAware = TRUE
    /\ wait_began_at = 0
    /\ rollouts = 0

NextToken ==
    \/ TokenStep
    \/ TokenTick

SpecToken == InitToken /\ [][NextToken]_vars

\* the master under "python -O" with a utils.now that returns naive local
\* time, as datetime.datetime.now() does: the one build in which the deadline
\* test of wait_for_hosts (tasks.py:105-107) can be evaluated
InitMasterNaiveNow ==
    /\ MasterInit
    /\ assertsEnabled = FALSE
    /\ SlaveInit
    /\ artifact = [python_version |-> "3.7", hook |-> FALSE]
    /\ WatchInit
    /\ TokenInit
    /\ provider = "github"
    /\ CheckRunInit
    /\ WebhookInit
    /\ DeployInit
    /\ nowAware = FALSE
    /\ wait_began_at = 0
    /\ rollouts = 0

SpecMasterNaiveNow == InitMasterNaiveNow /\ [][NextMaster]_vars

\* the webhook route of the master with one request, its handlers, the store
\* and the status-check API
InitWebhook == InitMaster

NextWebhook == WebhookStep

SpecWebhook == InitWebhook /\ [][NextWebhook]_vars

\* a deployment event that passed the signature check
AcceptedDeployment ==
    [hub |-> <<>>, github |-> Header("sha1 of the body", "event"),
     event |-> "deployment", body |-> "event"]

\* the master with a deployment event for the commit under way: its handler
\* and tasks.deploy run beside the check-suite and tarball-ready flows
InitDeployment ==
    /\ MasterInit
    /\ assertsEnabled = TRUE
    /\ SlaveInit
    /\ artifact = [python_version |-> "3.7", hook |-> FALSE]
    /\ WatchInit
    /\ TokenInit
    /\ provider = "github"
    /\ CheckRunInit
    /\ DeployInit
    /\ whpc = "deployment"
    /\ request = AcceptedDeployment
    /\ whStatus = 0
    /\ whRaised = "none"
    /\ nowAware = TRUE
    /\ wait_began_at = 0
    /\ rollouts = 0

NextDeployment ==
    \/ MasterStep
    \/ \E e \in BOOLEAN : DeploymentEvent(e)
    \/ DeployStep

SpecDeployment == InitDeployment /\ [][NextDeployment]_vars

\* one host with an accepted deployment event: check-suite handling stores
\* the VersionState, one prepare_host run works on the version directory,
\* and tasks.deploy runs beside them
InitDeployHost == InitDeployment

NextDeployHost ==
    \/ \E a \in CheckSuiteActions : CheckSuiteEvent(a)
    \/ CheckSuitePut
    \/ PrepareRequest(1)
    \/ \E ok \in BOOLEAN : PutStart(1, ok)
    \/ \E o \in Outcomes : PrepareBegin(1, o)
    \/ \E o \in Outcomes : Download(1, o)
    \/ \E o \in Outcomes : Extract(1, o)
    \/ \E o \in Outcomes : CreateVenv(1, o)
    \/ \E o \in Outcomes : InstallDependencies(1, o)
    \/ \E ok \in BOOLEAN : PutFinal(1, ok)
    \/ \E e \in BOOLEAN : DeploymentEvent(e)
    \/ DeployStep
    \/ \E o \in Outcomes : DeployHook(o)

SpecDeployHost == InitDeployHost /\ [][NextDeployHost]_vars


\* the check-run client, its caller and the status-check API
InitCheckRun == InitMaster

NextCheckRun == CheckRunStep

SpecCheckRun == InitCheckRun /\ [][NextCheckRun]_vars

-----------------------------------------------------------------------------
(* Properties of the provisioning pipeline, under SpecSlave *)

InPipeline == {"download", "extract", "venv", "install", "hook"}

Holders == {r \in Runs : holds[r]}

C1_Exclusive ==
    /\ Cardinality(Holders) <= 1
    /\ lockFile <=> Holders # {}
    /\ \A r \in Runs : ppc[r] \in InPipeline => holds[r]
    /\ \A r \in Runs :
          contended[r] =>
             /\ ret[r] = Result("False", "Someone is already preparing")
             /\ exc[r] = "none"
             /\ steps[r] = {}
             /\ ~holds[r]
             /\ ppc[r] \in {"put_final", "returned", "raised"}

C1_Attempt ==
    \A r \in Runs :
       (ppc[r] = "prepare" /\ ppc'[r] # "prepare" /\ exc'[r] = "none") =>
          IF lockFile
          THEN /\ contended'[r]
               /\ \E other \in Runs \ {r} : holds[other] /\ holds'[other]
               /\ ppc'[r] = "put_final"
               /\ lockFile'
          ELSE /\ ~contended'[r]
               /\ ppc'[r] \in {"download", "put_final"}
               /\ ppc'[r] = "download" <=> ~prepareDone

\* C1: at most one run is between creating and removing prepare.pid in every
\* reachable state, and prepare.pid exists exactly while a run holds it; a run
\* whose attempt to create prepare.pid is made while another run holds it
\* returns (False, "Someone is already preparing ...") in that same step,
\* having started neither download nor extraction nor any later step, and
\* leaves the holder's lock in place; a run whose attempt finds no lock and no
\* prepare.done is the one that proceeds to the download.
C1_LockExclusivity == []C1_Exclusive /\ [][C1_Attempt]_vars

\* two runs were requested together: one holds the lock and is working, the
\* other was turned away and has stored its result
C1_Witness ==
    \E r1, r2 \in Runs :
       /\ r1 # r2
       /\ holds[r1] /\ ppc[r1] \in InPipeline
       /\ contended[r2] /\ ppc[r2] = "returned"
       /\ ~prepareDone

\* the (success, message) a run has to store, from what its pipeline did
Outcome(r) ==
    IF exc[r] # "none" THEN Result("False", exc[r]) ELSE ret[r]

\* the done=True values among the values a run stored
DoneWrites(r) == {i \in 1..Len(writes[r]) : writes[r][i].done}

\* C2: a prepare_host run whose store requests succeed ends with exactly one
\* write of SlaveVersionState(done=True, success, message) under the host's
\* key, whichever step of the pipeline returned a failure or raised, where
\* (success, message) is what _prepare returned or (False, str(exception));
\* no failure or exception of a pipeline step ends the run before that write,
\* and no run writes done=True before its pipeline has ended.
C2_FinalStatusWrite ==
    \A r \in Runs :
       /\ ppc[r] = "returned" =>
             /\ Len(writes[r]) = 2
             /\ DoneWrites(r) = {2}
             /\ writes[r][2] =
                   SlaveState(TRUE, Outcome(r).success, Outcome(r).message)
             /\ Outcome(r) # NoResult
       /\ ppc[r] # "returned" => DoneWrites(r) = {}
       /\ ppc[r] = "raised" => putFailed[r]
       /\ exc[r] # "none" => ret[r] = NoResult

\* a run whose extraction raised has stored (False, exception message)
C2_Witness ==
    \E r \in Runs :
       /\ ppc[r] = "returned"
       /\ exc[r] = "OSError"
       /\ "extract" \in steps[r]
       /\ hostKey = SlaveState(TRUE, "False", "OSError")

\* C10: the stored SlaveVersionState.done of a host's key is never set back
\* from True to False
C10_DoneNeverReset == [][hostKey.done => hostKey'.done]_vars

\* the files of the version directory
Directory == <<targetDir, lockFile, prepareDone, extracted>>

C11_ShortCircuit ==
    \A r \in Runs :
       (ppc[r] = "prepare" /\ ppc'[r] # "prepare" /\ exc'[r] = "none"
           /\ prepareDone /\ ~lockFile) =>
          /\ ret'[r] = Result("True", "is already prepared")
          /\ ppc'[r] = "put_final"
          /\ steps'[r] = {}
          /\ ~holds'[r]
          /\ prepareDone' /\ ~lockFile'
          /\ Directory' = Directory

C11_NoWork ==
    /\ prepareDone => targetDir
    /\ \A r \in Runs :
          ret[r] = Result("True", "is already prepared") =>
             /\ steps[r] = {}
             /\ ~holds[r]
             /\ prepareDone
             /\ ppc[r] \in {"put_final", "returned", "raised"}

\* C11: a run of _prepare that finds prepare.done present and prepare.pid
\* absent returns (True, "... is already prepared") in that step, having
\* started neither download, extraction, venv creation, dependency install
\* nor the hook, and leaves the version directory exactly as it found it:
\* prepare.done present, prepare.pid absent; the state it leaves satisfies the
\* same precondition, so every further run gives the same result and state.
C11_Idempotence == []C11_NoWork /\ [][C11_ShortCircuit]_vars

\* one run prepared the version, a later one found it prepared and stored so
C11_Witness ==
    \E r1, r2 \in Runs :
       /\ ret[r1] = Result("True", "Prepared and ready for deployment")
       /\ ppc[r1] = "returned"
       /\ ret[r2] = Result("True", "is already prepared")
       /\ ppc[r2] = "returned"
       /\ hostKey = SlaveState(TRUE, "True", "is already prepared")
       /\ prepareDone /\ ~lockFile

C19_Step ==
    \A r \in Runs :
       (ppc[r] = "download" /\ ppc'[r] = "put_final" /\ exc'[r] = "none") =>
          /\ ret'[r] = Result("False", "Failed to download tar")
          /\ holds[r] /\ ~holds'[r]
          /\ lockFile /\ ~lockFile'
          /\ ~prepareDone'

C19_Released ==
    \A r \in Runs :
       ret[r] = Result("False", "Failed to download tar") =>
          /\ ~holds[r]
          /\ steps[r] = {"download"}
          /\ lockFile => \E other \in Runs \ {r} : holds[other]

\* C19: when _download_tarball returns False, _prepare removes prepare.pid
\* and returns (False, "Failed to download tar") in that step, with
\* prepare.done absent; the run no longer holds the lock, and prepare.pid
\* exists afterwards only if a later run has created it anew.
C19_DownloadFailureUnlocks == []C19_Released /\ [][C19_Step]_vars

\* the first run failed to download and stored that; the second run then
\* created prepare.pid and is at work
C19_Witness ==
    \E r1, r2 \in Runs :
       /\ ppc[r1] = "returned"
       /\ hostKey.message = "None"
       /\ ret[r1] = Result("False", "Failed to download tar")
       /\ writes[r1][2] = SlaveState(TRUE, "False", "Failed to download tar")
       /\ holds[r2] /\ lockFile
       /\ ppc[r2] \in InPipeline

C20_Step ==
    \A r \in Runs :
       (ppc[r] = "extract" /\ ppc'[r] = "put_final" /\ exc'[r] = "none"
           /\ ~extracted') =>
          /\ ret'[r] = Result("False", "Failed to extract tar")
          /\ holds'[r]
          /\ lockFile'
          /\ ~prepareDone'

C20_Locked ==
    \A r \in Runs :
       ret[r] = Result("False", "Failed to extract tar") =>
          /\ holds[r]
          /\ lockFile
          /\ ~prepareDone
          /\ steps[r] = {"download", "extract"}

\* C20: when _extract_tar returns False, _prepare returns
\* (False, "Failed to extract tar") in that step, and prepare.pid stays in
\* place and prepare.done absent, then and ever after.
C20_ExtractFailureKeepsLock == []C20_Locked /\ [][C20_Step]_vars

\* a run failed to extract and stored that; its prepare.pid is still there
C20_Witness ==
    \E r \in Runs :
       /\ ppc[r] = "returned"
       /\ ret[r] = Result("False", "Failed to extract tar")
       /\ hostKey = SlaveState(TRUE, "False", "Failed to extract tar")
       /\ lockFile /\ ~prepareDone

\* the run is past the point where _prepare tries to create prepare.pid
PastLockAttempt(r) ==
    \/ ppc[r] \in InPipeline
    \/ holds[r] \/ contended[r] \/ steps[r] # {}
    \/ ret[r] # NoResult

\* _prepare of the run has ended, by returning or by raising
PipelineEnded(r) ==
    /\ ppc[r] \notin InPipeline \cup {"idle", "put_start", "prepare"}
    /\ ret[r] # NoResult \/ exc[r] # "none"

C21_Order ==
    \A r \in Runs :
       /\ (ppc[r] = "prepare" \/ PastLockAttempt(r) \/ exc[r] # "none") =>
             /\ Len(writes[r]) >= 1
             /\ writes[r][1] = SlaveState(FALSE, "None", "None")
       /\ DoneWrites(r) # {} => PipelineEnded(r) /\ DoneWrites(r) = {2}

C21_Step ==
    \A r \in Runs :
       /\ (holds'[r] # holds[r] \/ contended'[r] # contended[r]
              \/ steps'[r] # steps[r] \/ ret'[r] # ret[r] \/ exc'[r] # exc[r]) =>
             /\ writes[r] = <<SlaveState(FALSE, "None", "None")>>
             /\ writes'[r] = writes[r]
       /\ DoneWrites(r)' # DoneWrites(r) =>
             /\ ppc[r] = "put_final"
             /\ PipelineEnded(r)
             /\ UNCHANGED <<Directory, steps, holds, contended, ret, exc>>

\* C21: in every prepare_host run, SlaveVersionState(done=False) has been
\* stored under the host's key before the run tries to create prepare.pid and
\* before it starts any pipeline step, and the run stores done=True only after
\* _prepare has ended (returned or raised): the step that stores done=True is
\* taken from the position after _prepare and touches neither the directory
\* nor the pipeline's result.
C21_StatusWritesBracketPipeline == []C21_Order /\ [][C21_Step]_vars

\* a run that went through download and extraction has stored done=False
\* first and done=True last
C21_Witness ==
    \E r \in Runs :
       /\ ppc[r] = "returned"
       /\ {"download", "extract"} \subseteq steps[r]
       /\ Len(writes[r]) = 2
       /\ ~writes[r][1].done /\ writes[r][2].done

\* the runs that are between their first store write and the end of _prepare
Working == {r \in Runs : ppc[r] \in InPipeline \cup {"prepare"}}

\* C29: whenever the SlaveVersionState stored under the host's key has
\* done=True, no prepare_host run for the commit is still at work on the
\* host: none is inside _prepare, the holder of prepare.pid included.
C29_DoneMeansNoRunWorking ==
    hostKey.done => Working = {}

\* the particular case of C29: done=True is stored while a run holds prepare.pid
C29_DoneWhileLockHeld ==
    hostKey.done => \A r \in Runs : ~(holds[r] /\ ppc[r] \in InPipeline)

\* the subprocess steps of a tarball: the hook only when it ships bin/prepare
RequiredSteps ==
    {"download", "extract", "venv", "install"}
        \cup (IF artifact.hook THEN {"hook"} ELSE {})

\* run r writes prepare.done in this step: it holds prepare.pid, the tarball
\* is extracted and its python-version resolved, every required subprocess
\* and no other has run, the last of them in this step, and _prepare returns
\* (True, ...) with the lock removed in the same step, after the marker
C30_Creates(r) ==
    /\ holds[r] /\ lockFile
    /\ ppc[r] = (IF artifact.hook THEN "hook" ELSE "install")
    /\ extracted
    /\ get_python_path(artifact.python_version) # "None"
    /\ steps'[r] = RequiredSteps
    /\ ret'[r] = Result("True", "Prepared and ready for deployment")
    /\ exc'[r] = "none"
    /\ ~holds'[r] /\ ~lockFile'

C30_Step ==
    /\ (~prepareDone /\ prepareDone') => \E r \in Runs : C30_Creates(r)
    /\ prepareDone => prepareDone'
    /\ \A r \in Runs :
          (holds[r] /\ ~holds'[r] /\ ret'[r].success = "True") => prepareDone'

\* C30: prepare.done is created only by a run that holds the lock and whose
\* download, extraction, python-version resolution, venv, dependency install
\* and hook (when the tarball has one) all succeeded; the lock is released
\* by that run only with the marker written; no step removes the marker.
C30_MarkerOnlyAfterFullPipeline == [][C30_Step]_vars

\* the marker was written by a run that ran the hook, the lock is gone, and
\* a later run found the marker and left it in place
C30_Witness ==
    /\ prepareDone /\ ~lockFile
    /\ \E r \in Runs :
          /\ ret[r] = Result("True", "Prepared and ready for deployment")
          /\ "hook" \in steps[r]
    /\ \E r \in Runs : ret[r] = Result("True", "is already prepared")

\* run r has left _prepare without removing the prepare.pid it created
Leaked(r) == holds[r] /\ ppc[r] \notin InPipeline

\* the messages of the failures after extraction (tasks.py:263-293)
LateFailures ==
    {"Missing python-version from tarball", "Unsupported python version",
     "Failed to create venv", "Failed to install dependencies",
     "Failed to run bootstrap script"}

\* _prepare of run r ends in this step
Ends(r) == ppc[r] \in InPipeline \cup {"prepare"} /\ ppc'[r] \notin InPipeline \cup {"prepare"}

\* the statement as worded: every failure after extraction and every
\* exception raised in _prepare leaves prepare.pid present and prepare.done
\* absent
C31_AnyFailure ==
    \A r \in Runs :
        (Ends(r) /\ (ret'[r].message \in LateFailures \/ exc'[r] # "none"))
            => lockFile' /\ ~prepareDone'

C31_EveryExceptionLeavesLock == [][C31_AnyFailure]_vars

\* a run that holds prepare.pid and ends with a failure after extraction or
\* with an exception keeps holding it, with prepare.done absent
C31_Leaves ==
    \A r \in Runs :
        (holds[r] /\ Ends(r)
           /\ (ret'[r].message \in LateFailures \/ exc'[r] # "none"))
            => Leaked(r)' /\ lockFile' /\ ~prepareDone'

\* once a lock is leaked it stays leaked, and a run that reaches
\* create_lock_file is turned away
C31_Stuck ==
    (\E r \in Runs : Leaked(r)) =>
        /\ \E r \in Runs : Leaked(r)'
        /\ \A q \in Runs :
              (ppc[q] = "prepare" /\ ppc'[q] # "prepare" /\ exc'[q] = "none")
                => /\ ret'[q] = Result("False", "Someone is already preparing")
                   /\ ppc'[q] = "put_final"

C31_Locked == (\E r \in Runs : Leaked(r)) => lockFile /\ ~prepareDone

\* C31: a run that has created prepare.pid and then fails after extraction
\* (python-version missing or unsupported, venv, dependency install or hook
\* failure) or raises returns with prepare.pid present and prepare.done
\* absent; from then on prepare.pid stays, every run that reaches
\* create_lock_file returns (False, "Someone is already preparing ..."), and
\* prepare.done is never written.
C31_LeakedLockIsPermanent ==
    []C31_Locked /\ [][C31_Leaves /\ C31_Stuck]_vars

\* one run raised in the hook with the lock held, and a later run has been
\* turned away at the lock and stored that failure
C31_Witness ==
    \E r, q \in Runs :
        /\ Leaked(r) /\ exc[r] = "OSError" /\ "hook" \in steps[r]
        /\ ppc[r] = "returned"
        /\ contended[q] /\ ppc[q] = "returned"
        /\ hostKey = SlaveState(TRUE, "False", "Someone is already preparing")
        /\ lockFile /\ ~prepareDone

\* the runs whose last store write is the value now under the host's key
LastWriters ==
    {r \in Runs : writes[r] # <<>> /\ writes[r][Len(writes[r])] = hostKey}

\* C32: whenever SlaveVersionState(done=True, success=True) is stored under
\* the host's key, prepare.done exists on the host and prepare.pid does not:
\* the run that stored the value has removed the lock it created, and no
\* other run holds one.
C32_StoredSuccessMeansPrepared ==
    (hostKey.done /\ hostKey.success = "True") =>
        /\ prepareDone
        /\ ~lockFile
        /\ \A r \in LastWriters : ~holds[r] /\ ret[r].success = "True"

\* the success of a full pipeline is stored, by a run that had the lock and
\* gave it back
C32_Witness ==
    /\ hostKey = SlaveState(TRUE, "True", "Prepared and ready for deployment")
    /\ \E r \in LastWriters :
          /\ ppc[r] = "returned" /\ "install" \in steps[r] /\ ~holds[r]
    /\ prepareDone /\ ~lockFile

-----------------------------------------------------------------------------
(* Properties of the master, under SpecMaster and SpecMasterFair *)

\* the completed check-run requests the API has received
Completed == {i \in 1..Len(reports) : reports[i].status = "completed"}

\* the master's flow, background task included, has ended
MasterEnded == mpc \in {"responded", "raised", "done", "wait_raised"}

\* wait_for_hosts has ended, by returning or by an exception
WaitEnded == mpc \in {"done", "wait_raised"}

\* C3: every terminal path of the handling of one tarball-ready event (wrong
\* branch, fan-out failure, timeout, full success) ends with exactly one
\* completed check-run request received by the API.
C3_ExactlyOneCompleted ==
    /\ mpc = "responded" => Cardinality(Completed) = 1
    /\ (mpc = "raised" /\ failure \in {"discovery", "notification", "state_put"})
          => Cardinality(Completed) = 1
    /\ (WaitEnded /\ loop_exit \in {"success", "timeout"})
          => Cardinality(Completed) = 1

\* C4: once the flow has ended after a failed store, discovery, notification
\* or watch request, the API has received a completed check run whose
\* conclusion is not success.
C4_FailureReported ==
    (MasterEnded /\ failure # "none") =>
       \E i \in Completed : reports[i].conclusion \in {"failure", "neutral"}

\* C5: once the wait loop has started and more than Timeout seconds have
\* passed since started_at, the loop eventually exits, whatever the slaves
\* do, provided every store request is answered and time passes.
C5_WaitLoopExits ==
    (waitStarted /\ clock - started_at.t > Timeout)
       ~> (mpc \in {"final_report", "done", "wait_raised"})

\* C6: when at a wake fewer than num_slaves slaves are done and more than
\* Timeout seconds have passed since started_at, wait_for_hosts ends with a
\* completed check run of conclusion failure that carries the ready and
\* total counts of that wake.
C6_TimeoutReported ==
    (WaitEnded /\ failure = "none" /\ wakes > 0 /\ num_ready < num_slaves
        /\ wake_at - started_at.t > Timeout) =>
       \E i \in Completed :
          /\ reports[i].conclusion = "failure"
          /\ reports[i].ready = num_ready
          /\ reports[i].total = num_slaves

\* C7: when every discovered slave has stored done=True, success=True within
\* Timeout seconds, a wake of the wait loop has counted them all and no store
\* request failed, wait_for_hosts ends on the success path with a completed
\* check run of conclusion success.
C7_SuccessReported ==
    (WaitEnded /\ failure = "none" /\ clock - started_at.t <= Timeout
        /\ wakes > 0 /\ num_ready >= num_slaves
        /\ \A h \in slaves : kv[h] = SlaveVersionState(TRUE, "True")) =>
       /\ loop_exit = "success"
       /\ \E i \in Completed : reports[i].conclusion = "success"

\* C8: once the notification of one slave has failed, whatever became of the
\* other notifications: the flow is in the handler's except block or has
\* re-raised, neither the in-memory nor the stored VersionState has status
\* preparing, wait_for_hosts is never started, and the handler ends having
\* sent exactly one completed check run, of conclusion failure, as its last
\* request, and re-raising the exception.
C8_FanoutAllOrNothing ==
    failure = "notification" =>
       /\ mpc \in {"except", "raised"}
       /\ state.status # "preparing"
       /\ rollout.status # "preparing"
       /\ ~waitStarted
       /\ mpc \notin {"watch", "watching", "wake_report", "final_report"}
       /\ mpc = "raised" =>
             /\ raised = "HTTPError"
             /\ Cardinality(Completed) = 1
             /\ Len(reports) \in Completed
             /\ reports[Len(reports)].conclusion = "failure"

\* slave 2's notification failed after slave 1 had accepted its own
C8_Witness ==
    /\ failure = "notification"
    /\ mpc = "raised"
    /\ slaves = Hosts
    /\ notified = {1}
    /\ pending[1] # "none"
    /\ reports[Len(reports)].conclusion = "failure"

\* the refs whose branch is the deploy branch: the branch itself, bare or
\* after refs/heads/
DeployRefs == {DEPLOY_BRANCH, RefsHeads \o DEPLOY_BRANCH}

\* C9: for a tarball-ready event whose branch is not the deploy branch, the
\* VersionState never gets status preparing, no slave is notified,
\* wait_for_hosts is never started, and once the VersionState has been read
\* the handler sends one completed check run of conclusion neutral and
\* responds.
C9_BranchFiltering ==
    (mpc # "idle" /\ payload.ref \notin DeployRefs) =>
       /\ state.status # "preparing"
       /\ rollout.status # "preparing"
       /\ notified = {}
       /\ \A h \in Hosts : pending[h] = "none"
       /\ ~waitStarted
       /\ mpc \in {"get_state", "report_neutral", "responded", "raised"}
       /\ mpc = "raised" => failure = "state_read"
       /\ mpc = "responded" =>
             /\ Cardinality(Completed) = 1
             /\ reports[Len(reports)].status = "completed"
             /\ reports[Len(reports)].conclusion = "neutral"
             /\ reports[Len(reports)].run_id = state.run_id

\* an event for refs/tags/master was answered with a neutral check run
C9_Witness ==
    /\ mpc = "responded"
    /\ payload.ref = RefsTags \o Master
    /\ reports[Len(reports)].conclusion = "neutral"

\* the flow of a tarball-ready event for the deploy branch that read its
\* VersionState has ended, wait_for_hosts included
DeployBranchFlowEnded ==
    /\ mpc \in {"raised", "done", "wait_raised"}
    /\ branch(payload.ref) = DEPLOY_BRANCH
    /\ failure # "state_read"

\* no check-run request follows a completed one
C33_NothingAfterCompleted == \A i \in Completed : i = Len(reports)

\* every wake has sent its in-progress request, with the counts of that
\* wake, before the loop was left or the next watch issued
C33_WakeReported ==
    (wakes > 0 /\ mpc \in {"watch", "watching", "final_report", "done"}) =>
        \E i \in 1..Len(reports) :
            /\ reports[i].status = "in_progress"
            /\ reports[i].summary = "Preparing hosts (ready)"
            /\ mpc \in {"watch", "watching", "final_report"} =>
                  (reports[i].ready = num_ready /\ reports[i].total = num_slaves)

\* C33: for one tarball-ready event on the deploy branch the check-run
\* requests are zero or more in-progress ones followed by exactly one
\* completed one: each wake of the wait loop sends its in-progress request
\* before the exit tests, nothing is sent after the completed request, and a
\* flow that has ended has sent exactly one completed request.
C33_ReportSequence ==
    /\ C33_NothingAfterCompleted
    /\ C33_WakeReported
    /\ DeployBranchFlowEnded => Cardinality(Completed) = 1

C18_Step ==
    /\ (cspc = "put" /\ cspc' = "done") =>
          /\ rollout' = VersionState(cs_run_id, 1, "waiting-for-tarball")
          /\ \E i \in 1..Len(reports) :
                /\ reports[i].method = "POST"
                /\ reports[i].status = "queued"
                /\ reports[i].run_id = cs_run_id
    /\ (Len(reports') = Len(reports) + 1
          /\ reports'[Len(reports')].status \in {"in_progress", "completed"}) =>
          /\ rollout.exists
          /\ reports'[Len(reports')].method = "PATCH"
          /\ reports'[Len(reports')].run_id = rollout.run_id

\* C18: check_suite_event, for requested and rerequested, creates a queued
\* check run and then stores a VersionState of status waiting-for-tarball
\* with the run id that request returned; every in-progress or completed
\* check-run request made afterwards for the commit, by tarball_ready_event
\* and by wait_for_hosts, is an update of the run whose id the stored
\* VersionState holds when the request is made.
C18_ReportsTargetStoredRun == [][C18_Step]_vars

-----------------------------------------------------------------------------
(* Properties of the watch generators, under SpecWatch *)

\* C12: in wait and in wait_recursive, every request after the first is
\* issued with the index carried by the most recent response, the
\* X-Consul-Index of the successful read or of the 404 answered before it,
\* never with 0 and never with the index of an older response.
C12_WatchResumption ==
    (wpc = "inflight" /\ wCalls > 1) =>
       /\ wResp.status \in {"200", "404"}
       /\ wFrom = wResp.index
       /\ wFrom # 0
       /\ wFrom = wIndex

\* after a value was yielded the store changed and the key vanished: the 404
\* carried a newer index, and the next request is issued with it
C12_Witness ==
    /\ wpc = "inflight"
    /\ wYields >= 1
    /\ wResp.status = "404"
    /\ wFrom = wResp.index
    /\ wFrom >= 3

\* C13: a 404 answer to a request of a watch generator yields nothing to the
\* caller and raises nothing, the generator goes on to issue its next
\* request; any other failed request (an error status other than 404, or no
\* response at all) raises to the caller, yields nothing, and the generator
\* is ended: it issues no further request.
C13_NotFoundIsNotAnError ==
    [][/\ (wpc = "inflight" /\ wpc' # "inflight") =>
            CASE wResp'.status = "404" ->
                    /\ wYields' = wYields
                    /\ wRaised' = "none"
                    /\ wpc' = "issue"
              [] wResp'.status = "200" ->
                    /\ wYields' = wYields + 1
                    /\ wRaised' = "none"
                    /\ wpc' = "yielded"
              [] OTHER ->
                    /\ wYields' = wYields
                    /\ wRaised' \in {"HTTPError", "AttributeError"}
                    /\ wpc' = "raised"
       /\ wpc = "raised" =>
            /\ wpc' = "raised"
            /\ wCalls' = wCalls
            /\ wYields' = wYields
            /\ wRaised' = wRaised]_vars

\* three requests: one yielded a value, one was answered 404 and re-issued,
\* the last was answered 500 and raised
C13_Witness ==
    /\ wpc = "raised"
    /\ wRaised = "HTTPError"
    /\ wResp.status = "500"
    /\ wCalls = 3
    /\ wYields = 1

-----------------------------------------------------------------------------
(* Properties of the token caches, under SpecToken *)

C14_Lookup ==
    \A c \in Callers :
       (tpc[c] = "idle" /\ tpc'[c] # "idle") =>
          LET entry == AUTH_TOKENS[tkey'[c]]
          IN  IF entry.token # 0 /\ entry.expiry > clock + TokenMargin
              THEN /\ tpc'[c] = "returned"
                   /\ tresult'[c] = entry.token
                   /\ tmints'[c] = 0
                   /\ nextToken' = nextToken
                   /\ AUTH_TOKENS' = AUTH_TOKENS
              ELSE /\ tpc'[c] = "minting"
                   /\ tmints'[c] = 1
                   /\ AUTH_TOKENS' = AUTH_TOKENS

C14_Refresh ==
    \A c \in Callers :
       (tpc[c] = "responded" /\ tpc'[c] = "returned") =>
          /\ tmints'[c] = 1
          /\ tresult'[c] = tresp[c].token
          /\ \A k \in Keys : tresult'[c] # AUTH_TOKENS[k].token
          /\ AUTH_TOKENS'[tkey[c]].token = tresult'[c]
          /\ AUTH_TOKENS'[tkey[c]].expiry =
                (IF provider = "github" THEN tresp[c].issued ELSE clock)
                   + tresp[c].lifetime
          /\ \A k \in Keys \ {tkey[c]} : AUTH_TOKENS'[k] = AUTH_TOKENS[k]

Refreshed == {c \in Callers : tpc[c] = "returned" /\ ~thit[c]}

\* C15: calls for one key that run concurrently and all miss the cache each
\* make their own mint request and each return the token of their own
\* mint, no two the same; at every moment the entry of a key is the
\* (token, expiry) pair that the call whose store came last got from its
\* mint, never the token of one mint with the expiry of another.
C15_LastWriteWins ==
    /\ \A c \in Refreshed :
          /\ tmints[c] = 1
          /\ tminted[c].token # 0
          /\ tresult[c] = tminted[c].token
    /\ \A c1, c2 \in Refreshed :
          c1 # c2 => tminted[c1].token # tminted[c2].token
    /\ \A k \in Keys : AUTH_TOKENS[k] = lastStore[k]

\* both callers missed the empty cache of key 1; caller 2's token was minted
\* first with the longer lifetime, caller 1's store came last and stands
C15_Witness ==
    /\ Refreshed = Callers
    /\ \A c \in Callers : tkey[c] = 1
    /\ tminted[2].token = 1 /\ tminted[1].token = 2
    /\ tminted[2].expiry > tminted[1].expiry
    /\ AUTH_TOKENS[1] = tminted[1]

C16_Failure ==
    \A c \in Callers :
       /\ (tpc[c] = "responded" /\ ~tresp[c].ok /\ tpc'[c] # tpc[c]) =>
             /\ tpc'[c] = "raised"
             /\ tmints'[c] = 1
             /\ tresult'[c] = 0
             /\ AUTH_TOKENS' = AUTH_TOKENS
             /\ nextToken' = nextToken
       /\ tmints'[c] <= 1
       /\ tpc[c] = "raised" => tpc'[c] = "raised"

\* C16: when the mint request of a call fails, the call raises to its caller
\* having made that one mint request and no other, returns no token, and
\* leaves every entry of the cache as it was; a call never makes a second
\* mint request.
C16_MintFailurePropagates == [][C16_Failure]_vars

\* a call for key 1 raised after its mint request failed; the entry that
\* was there before is still there
C16_Witness ==
    \E c \in Callers :
       /\ tpc[c] = "raised"
       /\ tkey[c] = 1
       /\ tmints[c] = 1
       /\ AUTH_TOKENS[1].token # 0
       /\ AUTH_TOKENS[1] = lastStore[1]

-----------------------------------------------------------------------------
(* Properties of the check-run client, under SpecCheckRun *)

\* the last request the API has received
LastReport == reports[Len(reports)]

C17_Call ==
    /\ (crpc = "request" /\ crpc' = "returned") =>
          /\ crSent' = 1
          /\ Len(reports') = Len(reports) + 1
          /\ IF cr_run_id = 0
             THEN /\ LastReport'.method = "POST"
                  /\ LastReport'.run_id = nextRunId
                  /\ \A i \in 1..Len(reports) :
                        reports[i].run_id # LastReport'.run_id
                  /\ crResult' = LastReport'.run_id
             ELSE /\ LastReport'.method = "PATCH"
                  /\ LastReport'.run_id = cr_run_id
                  /\ crResult' = cr_run_id
                  /\ nextRunId' = nextRunId
    /\ (crpc = "request" /\ crpc' = "raised") =>
          /\ crSent' = 1
          /\ crRaised' = "HTTPError"
          /\ crResult' = 0
          /\ reports' = reports
    /\ crpc' = "raised" => crResult' = 0
    /\ crSent' <= 1

\* C17: a call of _create_or_update_check_run that returns has sent exactly
\* one request: without run_id a POST, and it returns the id the API
\* assigned to the new run; with a run_id a PATCH to that run, and it
\* returns that same run_id; when the request fails the call raises, having
\* sent that one request and no other.
C17_CreateOrUpdate == [][C17_Call]_vars

\* a run was created, then updated under the id the create returned
C17_Witness ==
    /\ crpc = "returned"
    /\ Len(reports) = 2
    /\ reports[1].method = "POST"
    /\ cr_run_id = reports[1].run_id
    /\ LastReport.method = "PATCH"
    /\ LastReport.run_id = cr_run_id
    /\ crResult = cr_run_id

-----------------------------------------------------------------------------
(* Properties of the webhook ingress, under SpecWebhook *)

\* the x-hub-signature header is "sha1=" followed by the HMAC-SHA1 of the raw
\* body under the shared secret
ValidHubSignature ==
    request.hub = <<"sha1", "=", hexdigest(WEBHOOK_SECRET, request.body, "sha1")>>

\* the header is an HMAC of the raw body under the shared secret, whatever the
\* digest
IsHmac(header) ==
    \E m \in DigestMethods :
       header = <<m, "=", hexdigest(WEBHOOK_SECRET, request.body, m)>>

\* no handler was invoked: nothing was reported, stored or scheduled
NoSideEffect ==
    /\ cspc = "idle"
    /\ dpc = "idle"
    /\ reports = <<>>
    /\ rollout = NoVersionState

\* the request has no signature header at all, or its x-hub-signature header
\* is not an HMAC of its body
C22_Unsigned ==
    \/ request.hub = <<>> /\ request.github = <<>>
    \/ request.hub # <<>> /\ ~IsHmac(request.hub)

\* C22: a POST to /github-webhook that has no signature header, or whose
\* x-hub-signature header is not the HMAC of the raw body under the shared
\* secret, never reaches a handler and is answered 401: nothing is reported,
\* stored or scheduled for it.
C22_UnsignedRejected ==
    (whpc # "idle" /\ C22_Unsigned) =>
       /\ whpc \in {"verify", "responded"}
       /\ whpc = "responded" => whStatus = 401
       /\ NoSideEffect

\* the same for requests that carry no x-github-signature header
C22_WithoutGithubHeader ==
    (whpc # "idle" /\ request.github = <<>>) =>
       /\ whpc \in {"verify", "responded"}
       /\ whpc = "responded" => whStatus = 401
       /\ NoSideEffect

\* C23: a POST to /github-webhook whose x-hub-signature header is "sha1="
\* followed by the HMAC-SHA1 of the raw body under the shared secret is never
\* answered 401, a handler is reached only for the event type of the request,
\* and for an event type other than check_suite and deployment the answer is
\* 200 with nothing reported, stored or scheduled.
C23_SignedAccepted ==
    (whpc # "idle" /\ ValidHubSignature) =>
       /\ whStatus # 401
       /\ whRaised = "none"
       /\ whpc \in {"check_suite", "deployment"} => whpc = request.event
       /\ (whpc = "responded"
              /\ request.event \notin {"check_suite", "deployment"}) =>
             /\ whStatus = 200
             /\ NoSideEffect


-----------------------------------------------------------------------------
(* Properties of the store's keys, under SpecDeployment *)

\* the positions of the master's flows: check-suite handling, the
\* tarball-ready handler with fan-out and wait loop, and deploy
MasterPositions == <<cspc, mpc, dpc>>

C24_Writes ==
    /\ \A h \in Hosts :
          kv'[h] # kv[h] =>
             /\ pending'[h] # pending[h]
             /\ \A other \in Hosts \ {h} :
                   kv'[other] = kv[other] /\ pending'[other] = pending[other]
             /\ MasterPositions' = MasterPositions
             /\ rollout' = rollout
    /\ MasterPositions' # MasterPositions => kv' = kv
    /\ rollout' # rollout =>
          /\ MasterPositions' # MasterPositions
          /\ pending' = pending
          /\ kv' = kv

C24_NoDelete ==
    /\ rollout.exists => rollout'.exists
    /\ \A h \in Hosts : kv[h].exists => kv'[h].exists

\* C24: the value under repository/commit/hostname changes only in a step of
\* the slave of that hostname, which changes no other slave's key and not the
\* VersionState; no step of the master (check-suite handling, fan-out, wait
\* loop, deploy) changes a slave's key; the VersionState under
\* repository/commit changes only in a step of the master; and a key that
\* exists is never removed.
C24_KeyOwnership == [][C24_Writes /\ C24_NoDelete]_vars

\* the master stored the VersionState in check-suite handling, fan-out and
\* deploy, and each of the two slaves stored its own status
C24_Witness ==
    /\ rollout.status = "preparing"
    /\ rollout.deployment_id = 1
    /\ dpc = "done"
    /\ kv[1] = SlaveVersionState(TRUE, "True")
    /\ kv[2] = SlaveVersionState(FALSE, "None")
    /\ mpc = "watching"


\* prepare_hosts has stored the VersionState with status preparing
PreparingStored ==
    \/ mpc \in {"report_in_progress", "watch", "watching", "wake_report",
                "final_report", "done", "wait_raised"}
    \/ mpc \in {"except", "raised"} /\ state.status = "preparing"
          /\ failure = "none"

C26_Both ==
    (PreparingStored /\ dpc = "done") =>
       /\ rollout.status = "preparing"
       /\ rollout.deployment_id = deployment_id

C26_Step ==
    rollout.status = "preparing" => rollout'.status = "preparing"

\* C26: once both prepare_hosts and deploy have stored the VersionState of
\* the commit, in whichever order their reads and puts interleaved, the
\* stored VersionState has status preparing and the deployment_id of the
\* request; and with no further check_suite event the stored status never
\* leaves preparing.
C26_NoLostUpdate == []C26_Both /\ [][C26_Step]_vars

\* the two flows one after the other: prepare_hosts stored preparing, then
\* deploy read that state and stored it with its deployment_id
C26_Sequential ==
    /\ PreparingStored
    /\ dpc = "done"
    /\ rollout.status = "preparing"
    /\ rollout.deployment_id = 1

-----------------------------------------------------------------------------
(* Properties of the deadline of wait_for_hosts, under SpecMasterNaiveNow *)

\* the completed check runs that report a timeout
TimeoutReports ==
    {i \in Completed : reports[i].summary = "Timed out while preparing hosts"}

C25_TimeoutSinceStartedAt ==
    /\ loop_exit = "timeout" => wake_at - started_at.t > Timeout
    /\ TimeoutReports # {} => clock - started_at.t > Timeout


-----------------------------------------------------------------------------
(* Properties of the ready count of wait_for_hosts *)

\* the hosts whose stored SlaveVersionState has done=True
DoneHosts == {h \in Hosts : kv[h].exists /\ kv[h].done}

\* the completed check runs of conclusion success
SuccessReports == {i \in Completed : reports[i].conclusion = "success"}

\* C27: a completed check run of conclusion success has reached the API only
\* if every SlaveVersionState that the last wake counted as ready has
\* success=True (the counted states are the stored done=True states whenever
\* there are as many of them as the count).
C27_SuccessOnlyIfAllSucceeded ==
    (SuccessReports # {} /\ Cardinality(DoneHosts) = num_ready) =>
       \A h \in DoneHosts : kv[h].success = "True"

\* C28: the wait loop is left by the success path only when every slave
\* discovered for this rollout has finished the run that this rollout's
\* notification started and has stored done=True for it.
C28_SuccessOnlyIfThisRolloutDone ==
    loop_exit = "success" =>
       \A h \in slaves : pending[h] = "finished" /\ kv[h].done


-----------------------------------------------------------------------------
(* Properties of the wait loop's effects, under SpecMasterNaiveNow *)

\* the positions of wait_for_hosts
WaitPositions == {"watch", "watching", "wake_report", "final_report"}

\* the completed check runs wait_for_hosts has sent
WaitCompleted ==
    {i \in Completed : reports[i].summary \in
        {"All hosts ready", "Timed out while preparing hosts"}}

\* a step of wait_for_hosts writes nothing to the store
C34_Frame ==
    (mpc \in WaitPositions /\ mpc' # mpc) =>
        /\ rollout' = rollout
        /\ kv' = kv
        /\ storeIndex' = storeIndex

C34_Status ==
    /\ rollout.exists => rollout.status \in {"waiting-for-tarball", "preparing"}
    /\ (waitStarted /\ mpc \in WaitPositions \cup {"done", "wait_raised"})
          => rollout.status = "preparing"
    /\ WaitCompleted # {} => rollout.status = "preparing"

C34_SuccessReached ==
    /\ mpc = "done"
    /\ loop_exit = "success"
    /\ \E i \in WaitCompleted : reports[i].conclusion = "success"
    /\ rollout.status = "preparing"


\* the stored status is never a terminal one
C34_NoTerminalStatus ==
    rollout.exists => rollout.status \in {"waiting-for-tarball", "preparing"}

C34_FrameOnly == [][C34_Frame]_vars


-----------------------------------------------------------------------------
(* Properties of tasks.deploy, under SpecDeployHost *)

\* the messages of the returns before bin/deploy (tasks.py:164-168)
NotDeployable == {"Version does not exist", "Version is not prepared"}

C35_Step ==
    /\ (~d_hook /\ d_hook') => (targetDir /\ prepareDone)
    /\ dpc' # dpc => UNCHANGED <<targetDir, lockFile, prepareDone, holds>>
    /\ (d_ret' # d_ret /\ d_ret'.message = "Version does not exist")
          => ~targetDir /\ ~d_hook'
    /\ (d_ret' # d_ret /\ d_ret'.message = "Version is not prepared")
          => targetDir /\ ~prepareDone /\ ~d_hook'

C35_Attached ==
    /\ (d_hook \/ d_ret # NoResult) =>
          /\ rollout.exists
          /\ rollout.deployment_id = deployment_id
          /\ deployment_id # 0
    /\ d_ret.success = "False" /\ d_ret.message \in NotDeployable => ~d_hook
    /\ d_ret.success = "True" => d_hook

\* C35: deploy starts bin/deploy only when the version directory and
\* prepare.done both exist on its host, and otherwise returns
\* (False, "Version does not exist") or (False, "Version is not prepared")
\* without starting it; no step of deploy creates or removes prepare.pid;
\* whenever deploy has returned a result or started the script, its put of
\* the VersionState with the deployment_id has been made.
C35_DeployOnlyPrepared == []C35_Attached /\ [][C35_Step]_vars

\* deploy returned "Version is not prepared" while a prepare_host run holds
\* prepare.pid, with the deployment_id stored and bin/deploy not started
C35_Witness ==
    /\ d_ret = Result("False", "Version is not prepared")
    /\ dpc = "done" /\ ~d_hook
    /\ lockFile /\ holds[1] /\ ppc[1] \in InPipeline
    /\ rollout.deployment_id = 1

\* bin/deploy ran for a prepared version
C35_HookReached ==
    /\ d_ret = Result("True", "Finished deploy")
    /\ prepareDone /\ rollout.deployment_id = 1


-----------------------------------------------------------------------------
(* Properties of the exit tests of the wait loop, under SpecMasterNaiveNow *)

\* the loop is left, and timed_out set, only in the step of a wake that
\* follows its in-progress report; the ready count is tested first
C36_Step ==
    /\ (loop_exit' # loop_exit \/ timed_out' # timed_out) =>
          /\ mpc = "wake_report"
          /\ Len(reports') = Len(reports) + 1
          /\ reports'[Len(reports')].status = "in_progress"
          /\ wake_at' = clock
    /\ (mpc = "wake_report" /\ mpc' = "final_report") =>
          /\ loop_exit' = (IF num_ready >= num_slaves THEN "success" ELSE "timeout")
          /\ timed_out' = (num_ready < num_slaves)
          /\ num_ready < num_slaves => clock - started_at.t > Timeout

C36_Conclusion ==
    /\ timed_out <=> loop_exit = "timeout"
    /\ loop_exit = "timeout" => num_ready < num_slaves
    /\ loop_exit = "success" => num_ready >= num_slaves
    /\ mpc = "done" =>
          /\ loop_exit \in {"success", "timeout"}
          /\ Cardinality(WaitCompleted) = 1
          /\ \A i \in WaitCompleted :
                reports[i].conclusion =
                    (IF num_ready < num_slaves THEN "failure" ELSE "success")
    /\ \A i \in WaitCompleted :
          /\ reports[i].conclusion = "failure" <=> loop_exit = "timeout"
          /\ reports[i].conclusion = "success" <=> loop_exit = "success"

====
